---- MODULE Spec2Model ----
(***************************************************************************)
(* Session and routing core of rirc-server: the registries by_addr         *)
(* (ServerState.clients), by_nick (ServerState.users) and by_channel       *)
(* (ServerState.channels), the per-channel member maps, the per-connection *)
(* joined-channel maps, and the command handlers that read and write them. *)
(*                                                                         *)
(* Every session task is a process with a program counter pc[c].  A label  *)
(* is a suspension point of the handler: the await of a lock or of a       *)
(* socket write.  The action of a label waits for the lock, then runs the  *)
(* code up to the next suspension point.  Holds(t) and Wants(t) give, for  *)
(* the label a task is at, the locks it holds there and the locks its next *)
(* step acquires.                                                          *)
(***************************************************************************)
EXTENDS Integers, Sequences, FiniteSets, TLC

\* ---------------------------------------------------------------- bounds
NConns == 2
MaxCmds == 3

\* ------------------------------------------------------------- settings
MaxNameLength == 16
ChanLimit == 120
AllowChannelCreation == TRUE
ServerName == "rirc-server"

Conns == 1..NConns

\* The peer address of a connection is its index; its IP string is its host.
HostTable == <<"10.0.0.1", "10.0.0.2", "10.0.0.3", "10.0.0.4">>
get_host(c) == HostTable[c]

NumStr(n) == IF n < 0 THEN "wrapped" ELSE <<"0", "1", "2", "3", "4", "5", "6", "7", "8">>[n + 1]

None == "<none>"

\* Names that occur on the wire in this model, and their ASCII upper-casing.
\* Names that occur on the wire in this model: their bytes, and the string
\* of a byte sequence.
Chars(s) ==
    CASE s = "cy"  -> <<"c", "y">>
      [] s = "Cy"  -> <<"C", "y">>
      [] s = "9"   -> <<"9">>
      [] s = "bob" -> <<"b", "o", "b">>
      [] s = "@"   -> <<"@">>
      [] s = "PING" -> <<"P", "I", "N", "G">>
      [] s = "PONG" -> <<"P", "O", "N", "G">>
      [] OTHER     -> <<>>

Str(cs) ==
    CASE cs = <<"b", "o", "b">>      -> "bob"
      [] cs = <<"~", "b", "o", "b">> -> "~bob"
      [] OTHER                       -> ""

Alpha == {"b", "c", "o", "y", "C"}
Digit == {"9"}
\* A character is a string; the grave accent, NUL and a character of two
\* bytes in UTF-8 go by a name.
Backtick == "0x60"
Nul == "0x00"
EAcute == "0xC3A9"
NickSpecial == {"[", "\\", "]", "^", "_", Backtick, "{", "|", "}"}
BadUsernameChars == {"@", Nul, "\r", "\n", " "}

\* str::len: the bytes of the UTF-8 encoding.
len_utf8(ch) == IF ch = EAcute THEN 2 ELSE 1

RECURSIVE ByteLen(_)
ByteLen(cs) == IF cs = <<>> THEN 0 ELSE len_utf8(Head(cs)) + ByteLen(Tail(cs))

to_ascii_uppercase(s) ==
    CASE s = "al" -> "AL"
      [] s = "bo" -> "BO"
      [] s = "cy" -> "CY"
      [] s = "Cy" -> "CY"
      [] s = "dee" -> "DEE"
      [] s = "#a" -> "#A"
      [] s = "#b" -> "#B"
      [] s = "a"  -> "A"
      [] OTHER    -> s

starts_with_hash(s) == s \in {"#a", "#A", "#b", "#B"}

VARIABLES
    pc,         \* pc[c]: where the session task of connection c is
    status,     \* status[c]: ClientStatus (Unregistered / Normal) and its fields
    clients,    \* by_addr: the addresses in ServerState.clients
    users,      \* by_nick: upper-cased nick -> connection
    channels,   \* by_channel: upper-cased channel name -> channel object
    chan,       \* the channel objects: name, topic, users (member map keys)
    cchannels,  \* cchannels[c]: Client.channels, upper-cased name -> channel object
    outbox,     \* outbox[c]: the messages written to the socket of c, in order
    sockOk,     \* sockOk[c]: writes to the socket of c succeed
    loc,        \* loc[c]: the locals of the handler c's task is running
    cmds,       \* number of commands the server has read so far
    nextId,     \* next channel object to allocate
    panicked,   \* the tasks that hit an expect/unwrap/assert
    sink,       \* sink[c]: the MessageSink of c, its send_buffer and the bytes its io took
    completed,  \* completed[c]: the messages of the send calls on c that returned Ok, in order
    input,      \* the argument of the pure function a specification applies
    result      \* what the function returned, or that it panicked

vars == <<pc, status, clients, users, channels, chan, cchannels, outbox, sockOk,
          loc, cmds, nextId, panicked, sink, completed, input, result>>

\* The byte level of the writers, which only SpecSink looks at, and the
\* argument and result of the pure functions, which the session tasks leave
\* alone.
sinkvars == <<sink, completed, input, result>>

\* Option<T>: None, Some(x).
NoneOpt == <<>>
Some(x) == <<x>>

\* No function is being applied.
Unused == [fn |-> "none"]

MessageSink_new == [send_buffer |-> <<>>, io |-> <<>>]

SinkInit ==
    /\ sink = [c \in Conns |-> MessageSink_new]
    /\ completed = [c \in Conns |-> <<>>]
    /\ input = Unused
    /\ result = Unused

NoMsg == [src |-> <<>>, cmd |-> "", params |-> <<>>]

LocIdle == [todo |-> <<>>, name |-> "", ch |-> 0, pending |-> {}, chans |-> {},
            sent |-> {}, msg |-> NoMsg, res |-> "ok", ret |-> "", arg |-> "",
            nu |-> 0, nc |-> 0]

\* ------------------------------------------------------------ messages
Unregistered(nick, username, realname) ==
    [st |-> "Unregistered", nick |-> nick, username |-> username, realname |-> realname]

Normal(nick, username, realname) ==
    [st |-> "Normal", nick |-> nick, username |-> username, realname |-> realname]

get_nick(c) == status[c].nick

get_extended_prefix(c) == <<status[c].nick, status[c].username, get_host(c)>>

make_reply_msg(client_nick, cmd_num, params) ==
    [src |-> <<ServerName>>, cmd |-> cmd_num, params |-> <<client_nick>> \o params]

UserMsg(c, cmd, params) ==
    [src |-> get_extended_prefix(c), cmd |-> cmd, params |-> params]

\* A Weak<RwLock<Client>> upgrades while the session task still owns its Arc,
\* that is until the task returns and Drop starts.
DropLabels == {"drop_start", "drop_users", "drop_clients"}
InDrop(c) == pc[c] \in DropLabels \/ (pc[c] \in {"bc_chan", "bc_send"} /\ loc[c].ret = "drop")
Upgrades(c) == pc[c] \notin {"closed", "gone", "panicked"} /\ ~InDrop(c)

\* A channel object lives while by_channel holds its Arc or a task holds a clone.
ChanAlive(id) ==
    \/ \E k \in DOMAIN channels : channels[k] = id
    \/ \E t \in Conns : loc[t].ch = id

\* ---------------------------------------------------------------- locks
\* A lock is [k, id]; a holding or a request adds the mode m ("r" or "w";
\* a Mutex is always "w").
L(k, id, m) == [k |-> k, id |-> id, m |-> m]

ByChannel == L("by_channel", 0, "w")
ByNickR == L("by_nick", 0, "r")
ByNickW == L("by_nick", 0, "w")
ByAddr == L("by_addr", 0, "w")

\* The locks the task of connection t holds at its label, from the guards
\* that are live in the source at that await.
Holds(t) ==
    LET own(m) == {L("client", t, m)}
        ch == loc[t].ch
        bc == IF loc[t].ret = "drop" THEN {}
              ELSE IF loc[t].ret = "nick" THEN own("r") \cup {ByNickW}
              ELSE own("r")
    IN CASE pc[t] = "join_next"           -> own("r")
         [] pc[t] = "join_lock_channels"  -> own("r")
         [] pc[t] = "join_read_members"   -> own("r") \cup {ByChannel}
         [] pc[t] = "join_write_members"  -> own("r") \cup {ByChannel, L("chan", ch, "r")}
         [] pc[t] = "join_send"           -> own("r") \cup {ByChannel, L("chan", ch, "r"),
                                                            L("members", ch, "w")}
         [] pc[t] = "part_start"          -> own("r")
         [] pc[t] = "part_read_members"   -> own("r")
         [] pc[t] = "part_send"           -> own("r") \cup {L("chan", ch, "r"), L("members", ch, "r")}
         [] pc[t] = "part_write_members"  -> own("r")
         [] pc[t] = "part_lock_channels"  -> own("r") \cup {L("chan", ch, "r"), L("members", ch, "w")}
         [] pc[t] = "msg_lock_channels"   -> own("r")
         [] pc[t] = "msg_read_members"    -> own("r") \cup {ByChannel}
         [] pc[t] = "msg_send"            -> own("r") \cup {ByChannel, L("chan", ch, "r"),
                                                            L("members", ch, "r")}
         [] pc[t] = "msg_no_channel"      -> own("r") \cup {ByChannel}
         [] pc[t] = "quit_start"          -> own("r")
         [] pc[t] = "bc_chan"             -> bc \cup {L("cchannels", t, "r")}
         [] pc[t] = "bc_send"             -> bc \cup {L("cchannels", t, "r"), L("chan", ch, "r"),
                                                      L("members", ch, "r")}
         [] pc[t] = "nick_reject"         -> own("w")
         [] pc[t] = "nick_check"          -> own("w")
         [] pc[t] = "user_start"          -> own("w")
         [] pc[t] = "reply_send"          -> own("r")
         [] pc[t] = "nick_rekey"          -> own("r")
         [] pc[t] = "reg_lock_clients"    -> own("w")
         [] pc[t] = "reg_lock_users"      -> own("w")
         [] pc[t] = "welcome"             -> own("r")
         [] pc[t] = "lusers_users"        -> own("r")
         [] pc[t] = "lusers_channels"     -> own("r")
         [] pc[t] = "lusers_clients"      -> own("r")
         [] pc[t] = "mode_lock_channels"  -> own("w")
         [] pc[t] = "umode_self"          -> own("w")
         [] pc[t] = "umode_users"         -> own("w")
         [] pc[t] = "cj_lock_channels"    -> own("r")
         [] pc[t] = "cj_own_map"          -> own("r")
         [] pc[t] = "cj_lock_clients"     -> own("r")
         [] pc[t] = "cj_write_members"    -> own("r")
         [] pc[t] = "cj_names"            -> own("r") \cup {L("chan", ch, "r"), L("members", ch, "w")}
         [] pc[t] = "mode_write_channel"  -> own("w") \cup {ByChannel}
         [] pc[t] = "mode_read_members"   -> own("w") \cup {ByChannel, L("chan", ch, "w")}
         [] pc[t] = "mode_send"           -> own("w") \cup {ByChannel, L("chan", ch, "w"),
                                                            L("members", ch, "r")}
         [] OTHER                         -> {}

\* The locks the next step of t acquires, in the order the source awaits them.
Wants(t) ==
    LET ch == loc[t].ch
    IN CASE pc[t] = "join_lock_channels"  -> <<ByChannel>>
         [] pc[t] = "join_read_members"   -> <<L("chan", ch, "r"), L("members", ch, "r")>>
         [] pc[t] = "join_write_members"  -> <<L("members", ch, "w")>>
         [] pc[t] = "part_read_members"   -> <<L("chan", ch, "r"), L("members", ch, "r")>>
         [] pc[t] = "part_write_members"  -> <<L("chan", ch, "r"), L("members", ch, "w")>>
         [] pc[t] = "part_lock_channels"  -> <<ByChannel>>
         [] pc[t] = "msg_lock_channels"   -> <<ByChannel>>
         [] pc[t] = "msg_read_members"    -> <<L("chan", ch, "r"), L("members", ch, "r")>>
         [] pc[t] = "msg_no_channel"      -> <<ByNickR>>
         [] pc[t] = "nick_check"          -> <<ByNickR>>
         [] pc[t] = "nick_rekey"          -> <<ByNickW>>
         [] pc[t] = "reg_lock_clients"    -> <<ByAddr>>
         [] pc[t] = "reg_lock_users"      -> <<ByNickW>>
         [] pc[t] = "lusers_users"        -> <<ByNickR>>
         [] pc[t] = "lusers_channels"     -> <<ByChannel>>
         [] pc[t] = "lusers_clients"      -> <<ByAddr>>
         [] pc[t] = "drop_users"          -> <<ByNickW>>
         [] pc[t] = "drop_clients"        -> <<ByAddr>>
         [] pc[t] = "mode_lock_channels"  -> <<ByChannel>>
         [] pc[t] = "umode_users"         -> <<ByNickR>>
         [] pc[t] = "cj_lock_channels"    -> <<ByChannel>>
         [] pc[t] = "cj_own_map"          -> <<L("cchannels", t, "w")>>
         [] pc[t] = "cj_lock_clients"     -> <<ByAddr>>
         [] pc[t] = "cj_write_members"    -> <<L("chan", ch, "r"), L("members", ch, "w")>>
         [] pc[t] = "cj_names"            -> <<L("members", ch, "r")>>
         [] pc[t] = "mode_write_channel"  -> <<L("chan", ch, "w")>>
         [] pc[t] = "mode_read_members"   -> <<L("members", ch, "r")>>
         [] OTHER                         -> <<>>

Conflict(h, w) == h.k = w.k /\ h.id = w.id /\ (h.m = "w" \/ w.m = "w")

\* tokio's Mutex and RwLock are not re-entrant: a holding of the task itself
\* blocks it like any other.
Free(w) == \A u \in Conns : \A h \in Holds(u) : ~Conflict(h, w)

CanAcquire(t) == \A i \in 1..Len(Wants(t)) : Free(Wants(t)[i])

\* Client::send through a peer's Arc<RwLock<Client>>: user.read().await
CanReadClient(u) == Free(L("client", u, "r"))

\* ------------------------------------------------------------- helpers
Range(f) == {f[k] : k \in DOMAIN f}
Without(f, k) == [x \in DOMAIN f \ {k} |-> f[x]]
Empty == <<>>

Channel_new(name) ==
    [name |-> name, topic |-> None, users |-> {}, mode |-> [no_external_msgs |-> TRUE]]

\* Some other task holds an Arc it upgraded for a join_all fan-out.
HeldByOthers(u) ==
    \E t \in Conns \ {u} : pc[t] \in {"part_send", "msg_send", "mode_send"} /\ u \in loc[t].pending

Upgradable(u) == Upgrades(u) \/ (pc[u] = "drop_start" /\ HeldByOthers(u))

Goto(c, label) == pc' = [pc EXCEPT ![c] = label]

\* The handler returns: Ok goes back to the read loop, Err leaves
\* handle_client, which drops the session.
Finish(c, ok) ==
    /\ pc' = [pc EXCEPT ![c] = IF ok THEN "idle" ELSE "drop_start"]
    /\ loc' = [loc EXCEPT ![c] = LocIdle]

Deliver(to, ms) == outbox' = [outbox EXCEPT ![to] = @ \o ms]

\* Channel::get_names_msgs: the nicks of the members whose Weak upgrades;
\* split_trailing_args emits no 353 at all for an empty list.
get_names_msgs(id, client_nick) ==
    LET names == {get_nick(u) : u \in {m \in chan[id].users : Upgradable(m)}}
    IN (IF names = {} THEN <<>>
        ELSE <<make_reply_msg(client_nick, "353", <<"=", chan[id].name, names>>)>>)
       \o <<make_reply_msg(client_nick, "366", <<chan[id].name, "End of /NAMES list">>)>>

get_join_msgs(id, client_nick) ==
    (IF chan[id].topic = None THEN <<>>
     ELSE <<make_reply_msg(client_nick, "332", <<chan[id].name, chan[id].topic>>),
            make_reply_msg(client_nick, "333", <<chan[id].name>>)>>)
    \o get_names_msgs(id, client_nick)

\* ------------------------------------------------------- the session task
Connect(c) ==
    /\ pc[c] = "closed"
    /\ Free(ByAddr)
    /\ clients' = clients \cup {c}
    /\ \E accept \in BOOLEAN : Goto(c, IF accept THEN "idle" ELSE "drop_start")
    /\ UNCHANGED <<status, users, channels, chan, cchannels, outbox, sockOk, loc, cmds,
                   nextId, panicked>>
    /\ UNCHANGED sinkvars

Eof(c) ==
    /\ pc[c] = "idle"
    /\ Goto(c, "drop_start")
    /\ UNCHANGED <<status, clients, users, channels, chan, cchannels, outbox, sockOk, loc,
                   cmds, nextId, panicked>>
    /\ UNCHANGED sinkvars

\* The connections the next step of t may write to.
WillSendTo(t) ==
    CASE pc[t] \in {"join_send", "part_send", "msg_send", "bc_send", "mode_send",
                    "sink_ready", "sink_flush"} -> loc[t].pending
      [] pc[t] = "msg_no_channel" -> Conns
      [] pc[t] \in {"idle", "closed", "gone", "panicked", "drop_start", "drop_users",
                    "drop_clients", "bc_chan", "join_write_members", "part_read_members",
                    "part_write_members", "part_lock_channels", "reg_lock_clients",
                    "lusers_users", "lusers_channels", "lusers_clients",
                    "mode_read_members", "sink_lock"} -> {}
      [] OTHER -> {t}

\* The peer resets the connection: from now on writes to the socket fail.  A
\* reset is taken when some task is about to write to the socket; an earlier
\* one is observed by nobody before that.
SockBreak(c) ==
    /\ \E t \in Conns : c \in WillSendTo(t)
    /\ sockOk[c]
    /\ sockOk' = [sockOk EXCEPT ![c] = FALSE]
    /\ UNCHANGED <<pc, status, clients, users, channels, chan, cchannels, outbox, loc, cmds,
                   nextId, panicked>>
    /\ UNCHANGED sinkvars

\* process_message: the next message of c is read and its handler is called.
Recv(c, verb) ==
    /\ pc[c] = "idle"
    /\ cmds < MaxCmds
    /\ cmds' = cmds + 1

\* -------------------------------------------------------------- dispatch
Command(name, permissions, handler) ==
    [name |-> name, permissions |-> permissions, handler |-> handler]

\* A table in which NOTICE is served by the handler of PRIVMSG.
COMMANDS_LIST_SharedHandler ==
    <<Command("PING", "Any", "handle_ping"),
      Command("NICK", "Any", "handle_nick"),
      Command("USER", "Any", "handle_user"),
      Command("NOTICE", "Any", "handle_privmsg"),
      Command("PRIVMSG", "Normal", "handle_privmsg")>>

\* COMMANDS_LIST: name, namespace and handler of every command, in the order
\* of the table.
COMMANDS_LIST ==
    <<Command("PING", "Any", "handle_ping"),
      Command("NICK", "Any", "handle_nick"),
      Command("USER", "Any", "handle_user"),
      Command("NOTICE", "Any", "handle_notice"),
      Command("VERSION", "Normal", "handle_version"),
      Command("LUSERS", "Normal", "handle_lusers"),
      Command("MOTD", "Normal", "handle_motd"),
      Command("PRIVMSG", "Normal", "handle_privmsg"),
      Command("JOIN", "Normal", "handle_join"),
      Command("PART", "Normal", "handle_part"),
      Command("QUIT", "Normal", "handle_quit"),
      Command("TOPIC", "Normal", "handle_topic")>>

\* COMMANDS: the verbs of the command table and the namespace of each.
COMMANDS ==
    [v \in {"PING", "NICK", "USER", "NOTICE", "VERSION", "LUSERS", "MOTD", "PRIVMSG",
            "JOIN", "PART", "QUIT", "TOPIC"} |->
        IF v \in {"PING", "NICK", "USER", "NOTICE"} THEN "Any" ELSE "Normal"]

is_command_available(cmd, c) ==
    IF COMMANDS[cmd] = "Any" THEN TRUE ELSE status[c].st = "Normal"

\* Verbs that reach no handler: one that is not in the table, and JOIN from a
\* connection that has not registered.
OtherVerbs == {"FOO", "JOIN"}

\* process_message reads a message for which no handler will run.
RecvOther(c) ==
    /\ \E verb \in OtherVerbs :
          /\ Recv(c, verb)
          /\ verb \in DOMAIN COMMANDS => ~is_command_available(verb, c)
          /\ loc' = [loc EXCEPT ![c].name = verb]
    /\ Goto(c, "dispatch")
    /\ UNCHANGED <<status, clients, users, channels, chan, cchannels, outbox, sockOk,
                   nextId, panicked>>
    /\ UNCHANGED sinkvars

\* A dispatch that answers 421 whatever the state of the connection.
Dispatch_AlwaysReplies(c) ==
    /\ pc[c] = "dispatch"
    /\ IF sockOk[c]
       THEN /\ Deliver(c, <<make_reply_msg(IF status[c].nick = None THEN "*" ELSE status[c].nick,
                                           "421", <<loc[c].name, "Unknown command">>)>>)
            /\ Finish(c, TRUE)
       ELSE Finish(c, FALSE) /\ UNCHANGED outbox
    /\ UNCHANGED <<status, clients, users, channels, chan, cchannels, sockOk, cmds,
                   nextId, panicked>>
    /\ UNCHANGED sinkvars

\* process_message after the look-up in COMMANDS: a verb of the table that is
\* not available is dropped; an unknown verb is answered 421 if the client is
\* registered.
Dispatch(c) ==
    /\ pc[c] = "dispatch"
    /\ IF loc[c].name \in DOMAIN COMMANDS
       THEN Finish(c, TRUE) /\ UNCHANGED outbox
       ELSE IF status[c].st = "Normal"
       THEN IF sockOk[c]
            THEN /\ Deliver(c, <<make_reply_msg(status[c].nick, "421",
                                                <<loc[c].name, "Unknown command">>)>>)
                 /\ Finish(c, TRUE)
            ELSE Finish(c, FALSE) /\ UNCHANGED outbox
       ELSE Finish(c, TRUE) /\ UNCHANGED outbox
    /\ UNCHANGED <<status, clients, users, channels, chan, cchannels, sockOk, cmds,
                   nextId, panicked>>
    /\ UNCHANGED sinkvars

\* ------------------------------------------------------------------ JOIN
\* The channel lists, channel names and targets that clients send.
JoinLists == {<<"#a">>, <<"#A">>, <<"a">>}
PartNames == {"#a", "#b"}
MsgTargets == {"#A", "bo"}

RecvJoin(c) ==
    /\ Recv(c, "JOIN")
    /\ status[c].st = "Normal"
    /\ \E list \in JoinLists : loc' = [loc EXCEPT ![c].todo = list]
    /\ Goto(c, "join_next")
    /\ UNCHANGED <<status, clients, users, channels, chan, cchannels, outbox, sockOk,
                   nextId, panicked>>
    /\ UNCHANGED sinkvars

\* A variant of the loop head of handle_join that lets a client at the limit
\* join one more channel (len() > chan_limit).
JoinNextAt_OneMore(c, chan_limit) ==
    /\ pc[c] = "join_next"
    /\ IF loc[c].todo = <<>>
       THEN Finish(c, TRUE) /\ UNCHANGED outbox
       ELSE LET n == Head(loc[c].todo)
                rest == Tail(loc[c].todo)
            IN IF ~starts_with_hash(n)
               THEN IF sockOk[c]
                    THEN /\ Deliver(c, <<make_reply_msg(get_nick(c), "403", <<n, "No such channel">>)>>)
                         /\ loc' = [loc EXCEPT ![c].todo = rest]
                         /\ UNCHANGED pc
                    ELSE Finish(c, FALSE) /\ UNCHANGED outbox
               ELSE IF Cardinality(DOMAIN cchannels[c]) > chan_limit
               THEN IF sockOk[c]
                    THEN /\ Deliver(c, <<make_reply_msg(get_nick(c), "405", <<n, "You have joined too many channels">>)>>)
                         /\ Finish(c, TRUE)
                    ELSE Finish(c, FALSE) /\ UNCHANGED outbox
               ELSE /\ loc' = [loc EXCEPT ![c].todo = rest, ![c].name = n]
                    /\ Goto(c, "join_lock_channels")
                    /\ UNCHANGED outbox
    /\ UNCHANGED <<status, clients, users, channels, chan, cchannels, sockOk, cmds,
                   nextId, panicked>>
    /\ UNCHANGED sinkvars

\* One turn of the loop over the chanlist of handle_join, up to the lock of
\* by_channel, under the setting chan_limit.
JoinNextAt(c, chan_limit) ==
    /\ pc[c] = "join_next"
    /\ IF loc[c].todo = <<>>
       THEN Finish(c, TRUE) /\ UNCHANGED outbox
       ELSE LET n == Head(loc[c].todo)
                rest == Tail(loc[c].todo)
            IN IF ~starts_with_hash(n)
               THEN IF sockOk[c]
                    THEN /\ Deliver(c, <<make_reply_msg(get_nick(c), "403", <<n, "No such channel">>)>>)
                         /\ loc' = [loc EXCEPT ![c].todo = rest]
                         /\ UNCHANGED pc
                    ELSE Finish(c, FALSE) /\ UNCHANGED outbox
               ELSE IF Cardinality(DOMAIN cchannels[c]) >= chan_limit
               THEN IF sockOk[c]
                    THEN /\ Deliver(c, <<make_reply_msg(get_nick(c), "405", <<n, "You have joined too many channels">>)>>)
                         /\ Finish(c, TRUE)
                    ELSE Finish(c, FALSE) /\ UNCHANGED outbox
               ELSE /\ loc' = [loc EXCEPT ![c].todo = rest, ![c].name = n]
                    /\ Goto(c, "join_lock_channels")
                    /\ UNCHANGED outbox
    /\ UNCHANGED <<status, clients, users, channels, chan, cchannels, sockOk, cmds,
                   nextId, panicked>>
    /\ UNCHANGED sinkvars

JoinNext(c) == JoinNextAt(c, ChanLimit)

JoinLockChannels(c) ==
    /\ pc[c] = "join_lock_channels"
    /\ CanAcquire(c)
    /\ LET key == to_ascii_uppercase(loc[c].name)
           exists == key \in DOMAIN channels
           id == IF exists THEN channels[key] ELSE nextId
       IN IF ~exists /\ ~AllowChannelCreation
          THEN /\ IF sockOk[c]
                  THEN /\ Deliver(c, <<make_reply_msg(get_nick(c), "403", <<loc[c].name, "No such channel">>)>>)
                       /\ Goto(c, "join_next")
                       /\ UNCHANGED loc
                  ELSE Finish(c, FALSE) /\ UNCHANGED outbox
               /\ UNCHANGED <<channels, chan, nextId, cchannels>>
          ELSE /\ channels' = IF exists THEN channels ELSE channels @@ (key :> id)
               /\ chan' = IF exists THEN chan ELSE chan @@ (id :> Channel_new(loc[c].name))
               /\ nextId' = IF exists THEN nextId ELSE nextId + 1
               /\ IF key \in DOMAIN cchannels[c]
                  THEN Goto(c, "join_next") /\ UNCHANGED <<cchannels, loc>>
                  ELSE /\ cchannels' = [cchannels EXCEPT ![c] = @ @@ (key :> id)]
                       /\ loc' = [loc EXCEPT ![c].ch = id]
                       /\ Goto(c, "join_read_members")
               /\ UNCHANGED outbox
    /\ UNCHANGED <<status, clients, users, sockOk, cmds, panicked>>
    /\ UNCHANGED sinkvars

JoinReadMembers(c) ==
    /\ pc[c] = "join_read_members"
    /\ CanAcquire(c)
    /\ \A u \in chan[loc[c].ch].users : Upgradable(u) => CanReadClient(u)
    /\ IF sockOk[c]
       THEN /\ Deliver(c, get_join_msgs(loc[c].ch, get_nick(c)))
            /\ Goto(c, "join_write_members")
            /\ UNCHANGED loc
       ELSE Finish(c, FALSE) /\ UNCHANGED outbox
    /\ UNCHANGED <<status, clients, users, channels, chan, cchannels, sockOk, cmds,
                   nextId, panicked>>
    /\ UNCHANGED sinkvars

JoinWriteMembers(c) ==
    /\ pc[c] = "join_write_members"
    /\ CanAcquire(c)
    /\ chan' = [chan EXCEPT ![loc[c].ch].users = @ \cup {c}]
    /\ loc' = [loc EXCEPT ![c].pending = chan[loc[c].ch].users \cup {c},
                          ![c].msg = UserMsg(c, "JOIN", <<chan[loc[c].ch].name>>)]
    /\ Goto(c, "join_send")
    /\ UNCHANGED <<status, clients, users, channels, cchannels, outbox, sockOk, cmds,
                   nextId, panicked>>
    /\ UNCHANGED sinkvars

JoinSend(c) ==
    /\ pc[c] = "join_send"
    /\ IF loc[c].pending = {}
       THEN /\ loc' = [loc EXCEPT ![c].ch = 0, ![c].msg = NoMsg, ![c].name = ""]
            /\ Goto(c, "join_next")
            /\ UNCHANGED outbox
       ELSE \E u \in loc[c].pending :
              IF ~Upgradable(u)
              THEN /\ loc' = [loc EXCEPT ![c].pending = @ \ {u}]
                   /\ UNCHANGED <<pc, outbox>>
              ELSE /\ CanReadClient(u)
                   /\ IF sockOk[u]
                      THEN /\ Deliver(u, <<loc[c].msg>>)
                           /\ loc' = [loc EXCEPT ![c].pending = @ \ {u}]
                           /\ UNCHANGED pc
                      ELSE Finish(c, FALSE) /\ UNCHANGED outbox
    /\ UNCHANGED <<status, clients, users, channels, chan, cchannels, sockOk, cmds,
                   nextId, panicked>>
    /\ UNCHANGED sinkvars

\* ------------------------------------------------------------------ PART
RecvPart(c) ==
    /\ Recv(c, "PART")
    /\ status[c].st = "Normal"
    /\ \E n \in PartNames : loc' = [loc EXCEPT ![c].name = n]
    /\ Goto(c, "part_start")
    /\ UNCHANGED <<status, clients, users, channels, chan, cchannels, outbox, sockOk,
                   nextId, panicked>>
    /\ UNCHANGED sinkvars

\* A variant of handle_part that treats a ChannelNotFoundError like every
\* other error of Client::part and returns it.
PartStart_NotFoundIsFatal(c) ==
    /\ pc[c] = "part_start"
    /\ LET n == loc[c].name
           key == to_ascii_uppercase(n)
           reply(num, text) ==
               IF sockOk[c]
               THEN Deliver(c, <<make_reply_msg(get_nick(c), num, <<n, text>>)>>) /\ Finish(c, TRUE)
               ELSE Finish(c, FALSE) /\ UNCHANGED outbox
       IN IF ~starts_with_hash(n)
          THEN reply("403", "No such channel") /\ UNCHANGED cchannels
          ELSE IF key \notin DOMAIN cchannels[c]
          THEN Finish(c, FALSE) /\ UNCHANGED <<outbox, cchannels>>
          ELSE /\ cchannels' = [cchannels EXCEPT ![c] = Without(@, key)]
               /\ IF ChanAlive(cchannels[c][key])
                  THEN /\ loc' = [loc EXCEPT ![c].ch = cchannels[c][key]]
                       /\ Goto(c, "part_read_members")
                       /\ UNCHANGED outbox
                  ELSE Finish(c, FALSE) /\ UNCHANGED outbox
    /\ UNCHANGED <<status, clients, users, channels, chan, sockOk, cmds, nextId, panicked>>
    /\ UNCHANGED sinkvars

\* handle_part up to the first await of Client::part; a ChannelNotFoundError
\* is answered with ERR_NOT_ON_CHANNEL after the join_all.
PartStart(c) ==
    /\ pc[c] = "part_start"
    /\ LET n == loc[c].name
           key == to_ascii_uppercase(n)
           reply(num, text) ==
               IF sockOk[c]
               THEN Deliver(c, <<make_reply_msg(get_nick(c), num, <<n, text>>)>>) /\ Finish(c, TRUE)
               ELSE Finish(c, FALSE) /\ UNCHANGED outbox
       IN IF ~starts_with_hash(n)
          THEN reply("403", "No such channel") /\ UNCHANGED cchannels
          ELSE IF key \notin DOMAIN cchannels[c]
          THEN reply("442", "You're not on that channel") /\ UNCHANGED cchannels
          ELSE /\ cchannels' = [cchannels EXCEPT ![c] = Without(@, key)]
               /\ IF ChanAlive(cchannels[c][key])
                  THEN /\ loc' = [loc EXCEPT ![c].ch = cchannels[c][key]]
                       /\ Goto(c, "part_read_members")
                       /\ UNCHANGED outbox
                  ELSE reply("442", "You're not on that channel")
    /\ UNCHANGED <<status, clients, users, channels, chan, sockOk, cmds, nextId, panicked>>
    /\ UNCHANGED sinkvars

\* Channel::send: the Weak of every member is upgraded under the members read
\* lock, one future per member is joined.
PartReadMembers(c) ==
    /\ pc[c] = "part_read_members"
    /\ CanAcquire(c)
    /\ loc' = [loc EXCEPT ![c].pending = {u \in chan[loc[c].ch].users : Upgradable(u)},
                          ![c].msg = UserMsg(c, "PART", <<chan[loc[c].ch].name>>),
                          ![c].res = "ok"]
    /\ Goto(c, "part_send")
    /\ UNCHANGED <<status, clients, users, channels, chan, cchannels, outbox, sockOk, cmds,
                   nextId, panicked>>
    /\ UNCHANGED sinkvars

\* Channel::send without the comparison with exclude_user_addr.
ChannelSendTo_NoExclude(c, u, exclude) ==
    IF sockOk[u]
    THEN Deliver(u, <<loc[c].msg>>) /\ loc' = [loc EXCEPT ![c].pending = @ \ {u}]
    ELSE loc' = [loc EXCEPT ![c].pending = @ \ {u}, ![c].res = "err"] /\ UNCHANGED outbox

\* The futures of Channel::send: each takes the member's read lock and sends
\* unless the member is the excluded address.
ChannelSendTo(c, u, exclude) ==
    IF u \in exclude
    THEN loc' = [loc EXCEPT ![c].pending = @ \ {u}] /\ UNCHANGED outbox
    ELSE IF sockOk[u]
    THEN Deliver(u, <<loc[c].msg>>) /\ loc' = [loc EXCEPT ![c].pending = @ \ {u}]
    ELSE loc' = [loc EXCEPT ![c].pending = @ \ {u}, ![c].res = "err"] /\ UNCHANGED outbox

PartSend(c) ==
    /\ pc[c] = "part_send"
    /\ IF loc[c].pending = {}
       THEN Goto(c, "part_write_members") /\ UNCHANGED <<loc, outbox>>
       ELSE \E u \in loc[c].pending :
              /\ CanReadClient(u)
              /\ ChannelSendTo(c, u, {})
              /\ UNCHANGED pc
    /\ UNCHANGED <<status, clients, users, channels, chan, cchannels, sockOk, cmds,
                   nextId, panicked>>
    /\ UNCHANGED sinkvars

PartWriteMembers(c) ==
    /\ pc[c] = "part_write_members"
    /\ CanAcquire(c)
    /\ chan' = [chan EXCEPT ![loc[c].ch].users = @ \ {c}]
    /\ IF chan[loc[c].ch].users \ {c} = {}
       THEN Goto(c, "part_lock_channels") /\ UNCHANGED loc
       ELSE Finish(c, loc[c].res = "ok")
    /\ UNCHANGED <<status, clients, users, channels, cchannels, outbox, sockOk, cmds,
                   nextId, panicked>>
    /\ UNCHANGED sinkvars

\* Client::part without the removal of the emptied channel from by_channel.
PartLockChannels_KeepsEntry(c) ==
    /\ pc[c] = "part_lock_channels"
    /\ CanAcquire(c)
    /\ Finish(c, loc[c].res = "ok")
    /\ UNCHANGED <<status, clients, users, channels, chan, cchannels, outbox, sockOk, cmds,
                   nextId, panicked>>
    /\ UNCHANGED sinkvars

PartLockChannels(c) ==
    /\ pc[c] = "part_lock_channels"
    /\ CanAcquire(c)
    /\ LET key == to_ascii_uppercase(chan[loc[c].ch].name)
       IN channels' = IF key \in DOMAIN channels THEN Without(channels, key) ELSE channels
    /\ Finish(c, loc[c].res = "ok")
    /\ UNCHANGED <<status, clients, users, chan, cchannels, outbox, sockOk, cmds,
                   nextId, panicked>>
    /\ UNCHANGED sinkvars

\* --------------------------------------------------------------- PRIVMSG
HookOutcomes == {"true", "false"}

RecvPrivmsg(c) ==
    /\ Recv(c, "PRIVMSG")
    /\ status[c].st = "Normal"
    /\ \E n \in MsgTargets : loc' = [loc EXCEPT ![c].name = n, ![c].arg = NumStr(cmds)]
    /\ Goto(c, "msg_lock_channels")
    /\ UNCHANGED <<status, clients, users, channels, chan, cchannels, outbox, sockOk,
                   nextId, panicked>>
    /\ UNCHANGED sinkvars

MsgLockChannels(c) ==
    /\ pc[c] = "msg_lock_channels"
    /\ CanAcquire(c)
    /\ LET key == to_ascii_uppercase(loc[c].name)
       IN IF key \in DOMAIN channels
          THEN /\ loc' = [loc EXCEPT ![c].ch = channels[key]]
               /\ Goto(c, "msg_read_members")
               /\ UNCHANGED outbox
          ELSE IF key = to_ascii_uppercase(get_nick(c))
          THEN IF sockOk[c]
               THEN /\ Deliver(c, <<UserMsg(c, "PRIVMSG", <<get_nick(c), loc[c].arg>>)>>)
                    /\ Finish(c, TRUE)
               ELSE Finish(c, FALSE) /\ UNCHANGED outbox
          ELSE Goto(c, "msg_no_channel") /\ UNCHANGED <<loc, outbox>>
    /\ UNCHANGED <<status, clients, users, channels, chan, cchannels, sockOk, cmds,
                   nextId, panicked>>
    /\ UNCHANGED sinkvars

MsgNoChannel(c) ==
    /\ pc[c] = "msg_no_channel"
    /\ CanAcquire(c)
    /\ LET key == to_ascii_uppercase(loc[c].name)
           found == key \in DOMAIN users /\ Upgradable(users[key])
           to == IF found THEN users[key] ELSE c
           m == IF found
                THEN UserMsg(c, "PRIVMSG", <<get_nick(to), loc[c].arg>>)
                ELSE make_reply_msg(get_nick(c), "401", <<loc[c].name, "No such nick/channel">>)
       IN /\ CanReadClient(to)
          /\ IF sockOk[to]
             THEN Deliver(to, <<m>>) /\ Finish(c, TRUE)
             ELSE Finish(c, FALSE) /\ UNCHANGED outbox
    /\ UNCHANGED <<status, clients, users, channels, chan, cchannels, sockOk, cmds,
                   nextId, panicked>>
    /\ UNCHANGED sinkvars

MsgReadMembers(c) ==
    /\ pc[c] = "msg_read_members"
    /\ CanAcquire(c)
    /\ \E hook \in HookOutcomes :
         IF hook = "true"
         THEN /\ loc' = [loc EXCEPT ![c].pending = {u \in chan[loc[c].ch].users : Upgradable(u)},
                                    ![c].msg = UserMsg(c, "PRIVMSG", <<chan[loc[c].ch].name, loc[c].arg>>),
                                    ![c].res = "ok"]
              /\ Goto(c, "msg_send")
              /\ UNCHANGED outbox
         ELSE IF hook = "false"
         THEN Finish(c, TRUE) /\ UNCHANGED outbox
         ELSE IF sockOk[c]
         THEN /\ Deliver(c, <<make_reply_msg(get_nick(c), "404", <<loc[c].name, "hook error">>)>>)
              /\ Finish(c, TRUE)
         ELSE Finish(c, FALSE) /\ UNCHANGED outbox
    /\ UNCHANGED <<status, clients, users, channels, chan, cchannels, sockOk, cmds,
                   nextId, panicked>>
    /\ UNCHANGED sinkvars

MsgSend(c) ==
    /\ pc[c] = "msg_send"
    /\ IF loc[c].pending = {}
       THEN Finish(c, loc[c].res = "ok") /\ UNCHANGED outbox
       ELSE \E u \in loc[c].pending :
              /\ CanReadClient(u)
              /\ ChannelSendTo(c, u, {c})
              /\ UNCHANGED pc
    /\ UNCHANGED <<status, clients, users, channels, chan, cchannels, sockOk, cmds,
                   nextId, panicked>>
    /\ UNCHANGED sinkvars

\* ------------------------------------------------------- Client::broadcast
\* Client::broadcast without the users_sent_to set: a member is sent to once
\* per channel it shares with the sender.
BcChan_NoDedupe(c) ==
    /\ pc[c] = "bc_chan"
    /\ IF loc[c].chans = {}
       THEN /\ IF loc[c].ret = "quit"
               THEN /\ cchannels' = [cchannels EXCEPT ![c] = Empty]
                    /\ Finish(c, FALSE)
               ELSE IF loc[c].ret = "drop"
               THEN /\ Goto(c, "drop_users")
                    /\ loc' = [loc EXCEPT ![c] = LocIdle]
                    /\ UNCHANGED cchannels
               ELSE Finish(c, TRUE) /\ UNCHANGED cchannels
       ELSE /\ \E id \in loc[c].chans :
                 IF ~ChanAlive(id)
                 THEN /\ loc' = [loc EXCEPT ![c].chans = @ \ {id}]
                      /\ UNCHANGED pc
                 ELSE /\ Free(L("chan", id, "r"))
                      /\ Free(L("members", id, "r"))
                      /\ loc' = [loc EXCEPT ![c].chans = @ \ {id},
                                            ![c].ch = id,
                                            ![c].pending = chan[id].users,
                                            ![c].sent = @ \cup chan[id].users]
                      /\ Goto(c, "bc_send")
            /\ UNCHANGED cchannels
    /\ UNCHANGED <<status, clients, users, channels, chan, outbox, sockOk, cmds,
                   nextId, panicked>>
    /\ UNCHANGED sinkvars

\* The loop over the joined channels (under the read lock of Client.channels)
\* and, per channel, over its members (under the members read lock).  The
\* continuation loc.ret says who called: handle_quit, handle_nick or Drop.
BcChan(c) ==
    /\ pc[c] = "bc_chan"
    /\ IF loc[c].chans = {}
       THEN /\ IF loc[c].ret = "quit"
               THEN /\ cchannels' = [cchannels EXCEPT ![c] = Empty]
                    /\ Finish(c, FALSE)
               ELSE IF loc[c].ret = "drop"
               THEN /\ Goto(c, "drop_users")
                    /\ loc' = [loc EXCEPT ![c] = LocIdle]
                    /\ UNCHANGED cchannels
               ELSE Finish(c, TRUE) /\ UNCHANGED cchannels
       ELSE /\ \E id \in loc[c].chans :
                 IF ~ChanAlive(id)
                 THEN /\ loc' = [loc EXCEPT ![c].chans = @ \ {id}]
                      /\ UNCHANGED pc
                 ELSE /\ Free(L("chan", id, "r"))
                      /\ Free(L("members", id, "r"))
                      /\ loc' = [loc EXCEPT ![c].chans = @ \ {id},
                                            ![c].ch = id,
                                            ![c].pending = chan[id].users \ loc[c].sent,
                                            ![c].sent = @ \cup chan[id].users]
                      /\ Goto(c, "bc_send")
            /\ UNCHANGED cchannels
    /\ UNCHANGED <<status, clients, users, channels, chan, outbox, sockOk, cmds,
                   nextId, panicked>>
    /\ UNCHANGED sinkvars

BcSend(c) ==
    /\ pc[c] = "bc_send"
    /\ IF loc[c].pending = {}
       THEN /\ loc' = [loc EXCEPT ![c].ch = 0]
            /\ Goto(c, "bc_chan")
            /\ UNCHANGED outbox
       ELSE \E u \in loc[c].pending :
              /\ loc' = [loc EXCEPT ![c].pending = @ \ {u}]
              /\ IF ~Upgradable(u)
                 THEN UNCHANGED outbox
                 ELSE /\ CanReadClient(u)
                      /\ IF sockOk[u] THEN Deliver(u, <<loc[c].msg>>) ELSE UNCHANGED outbox
              /\ UNCHANGED pc
    /\ UNCHANGED <<status, clients, users, channels, chan, cchannels, sockOk, cmds,
                   nextId, panicked>>
    /\ UNCHANGED sinkvars

\* ------------------------------------------------------------------ QUIT
QuitReasons == {"bye"}

RecvQuit(c) ==
    /\ Recv(c, "QUIT")
    /\ status[c].st = "Normal"
    /\ \E r \in QuitReasons : loc' = [loc EXCEPT ![c].arg = IF r = None THEN "Quit" ELSE r]
    /\ Goto(c, "quit_start")
    /\ UNCHANGED <<status, clients, users, channels, chan, cchannels, outbox, sockOk,
                   nextId, panicked>>
    /\ UNCHANGED sinkvars

QuitStart(c) ==
    /\ pc[c] = "quit_start"
    /\ IF sockOk[c]
       THEN /\ Deliver(c, <<UserMsg(c, "QUIT", <<loc[c].arg>>)>>)
            /\ loc' = [loc EXCEPT ![c].msg = UserMsg(c, "QUIT", <<loc[c].arg>>),
                                  ![c].sent = {c},
                                  ![c].chans = Range(cchannels[c]),
                                  ![c].ret = "quit"]
            /\ Goto(c, "bc_chan")
       ELSE Finish(c, FALSE) /\ UNCHANGED outbox
    /\ UNCHANGED <<status, clients, users, channels, chan, cchannels, sockOk, cmds,
                   nextId, panicked>>
    /\ UNCHANGED sinkvars

\* ------------------------------------------------------- Drop for Client
DropStart(c) ==
    /\ pc[c] = "drop_start"
    /\ ~HeldByOthers(c)
    /\ IF status[c].st = "Normal"
       THEN /\ loc' = [loc EXCEPT ![c].msg = UserMsg(c, "QUIT", <<"Quit">>),
                                  ![c].sent = {},
                                  ![c].chans = Range(cchannels[c]),
                                  ![c].ret = "drop"]
            /\ Goto(c, "bc_chan")
       ELSE Goto(c, "drop_clients") /\ UNCHANGED loc
    /\ UNCHANGED <<status, clients, users, channels, chan, cchannels, outbox, sockOk, cmds,
                   nextId, panicked>>
    /\ UNCHANGED sinkvars

\* A panic inside drop unwinds: the rest of drop is skipped, the fields of the
\* Client are still destroyed.
DropUsers(c) ==
    /\ pc[c] = "drop_users"
    /\ CanAcquire(c)
    /\ LET key == to_ascii_uppercase(get_nick(c))
       IN IF key \in DOMAIN users
          THEN /\ users' = Without(users, key)
               /\ Goto(c, "drop_clients")
               /\ UNCHANGED <<panicked, cchannels>>
          ELSE /\ panicked' = panicked \cup {c}
               /\ Goto(c, "panicked")
               /\ cchannels' = [cchannels EXCEPT ![c] = Empty]
               /\ UNCHANGED users
    /\ UNCHANGED <<status, clients, channels, chan, outbox, sockOk, loc, cmds, nextId>>
    /\ UNCHANGED sinkvars

DropClients(c) ==
    /\ pc[c] = "drop_clients"
    /\ CanAcquire(c)
    /\ IF c \in clients
       THEN /\ clients' = clients \ {c}
            /\ Goto(c, "gone")
            /\ UNCHANGED panicked
       ELSE /\ panicked' = panicked \cup {c}
            /\ Goto(c, "panicked")
            /\ UNCHANGED clients
    /\ cchannels' = [cchannels EXCEPT ![c] = Empty]
    /\ UNCHANGED <<status, users, channels, chan, outbox, sockOk, loc, cmds, nextId>>
    /\ UNCHANGED sinkvars

\* ------------------------------------------------------- NICK and USER
\* VALID_NICKNAME_REGEX.is_match: ^[[:alpha:]special][[:alnum:]special-]*$
VALID_NICKNAME_REGEX_is_match(cs) ==
    /\ cs # <<>>
    /\ cs[1] \in Alpha \cup NickSpecial
    /\ \A i \in 2..Len(cs) : cs[i] \in Alpha \cup Digit \cup NickSpecial \cup {"-"}

\* The regex accepts a nickname from its second character on alone.
is_valid_nick_chars_AnyFirst(max_len, cs) ==
    /\ cs # <<>>
    /\ ByteLen(cs) <= max_len
    /\ \A i \in 2..Len(cs) : cs[i] \in Alpha \cup Digit \cup NickSpecial \cup {"-"}

\* is_valid_nick on the characters of the nickname.
is_valid_nick_chars(max_len, cs) ==
    /\ cs # <<>>
    /\ ByteLen(cs) <= max_len
    /\ VALID_NICKNAME_REGEX_is_match(cs)

is_valid_nick(max_len, nick) == is_valid_nick_chars(max_len, Chars(nick))

\* String::truncate: nothing when new_len is not below the length, a panic
\* when new_len is not on a character boundary.
truncate(cs, new_len) ==
    IF new_len >= ByteLen(cs) THEN [panic |-> FALSE, s |-> cs]
    ELSE IF \E k \in 0..Len(cs) : ByteLen(SubSeq(cs, 1, k)) = new_len
    THEN [panic |-> FALSE,
          s |-> SubSeq(cs, 1, CHOOSE k \in 0..Len(cs) : ByteLen(SubSeq(cs, 1, k)) = new_len)]
    ELSE [panic |-> TRUE, s |-> cs]

\* make_valid_username on the characters of the username: the Option it
\* returns, or the panic of the first truncate.
make_valid_username_chars(max_len, cs) ==
    LET cut == truncate(cs, max_len - 1)
        bad == {i \in 1..Len(cut.s) : cut.s[i] \in BadUsernameChars}
        kept == IF bad = {} THEN cut.s
                ELSE SubSeq(cut.s, 1, (CHOOSE i \in bad : \A j \in bad : i <= j) - 1)
    IN IF cut.panic THEN [panic |-> TRUE, ret |-> NoneOpt]
       ELSE IF kept # <<>> THEN [panic |-> FALSE, ret |-> Some(<<"~">> \o kept)]
       ELSE [panic |-> FALSE, ret |-> NoneOpt]

\* The names of the sessions are ASCII: no truncate panics on them.
make_valid_username(max_len, username) ==
    LET r == make_valid_username_chars(max_len, Chars(username))
    IN IF r.ret # NoneOpt THEN Str(r.ret[1]) ELSE None

NickArgs == {"cy", "Cy", "9"}
UserArgs == {"bob", "@"}
RegHookOutcomes == {"true", "false"}

nick_or_star(c) == IF status[c].nick = None THEN "*" ELSE status[c].nick

\* command_error: the numeric reply if the client has a nick, nothing if not.
command_error(c, num, params) ==
    IF status[c].nick = None
    THEN Finish(c, TRUE) /\ UNCHANGED outbox
    ELSE IF sockOk[c]
    THEN Deliver(c, <<make_reply_msg(get_nick(c), num, params)>>) /\ Finish(c, TRUE)
    ELSE Finish(c, FALSE) /\ UNCHANGED outbox

\* Client::close_with_error: the ERROR message, then Err in every case.
close_with_error(c, explanation) ==
    /\ IF sockOk[c]
       THEN Deliver(c, <<[src |-> <<>>, cmd |-> "ERROR", params |-> <<get_host(c), explanation>>]>>)
       ELSE UNCHANGED outbox
    /\ Finish(c, FALSE)

RecvNick(c) ==
    /\ Recv(c, "NICK")
    /\ \E n \in NickArgs :
         /\ loc' = [loc EXCEPT ![c].name = n]
         /\ Goto(c, IF is_valid_nick(MaxNameLength, n) THEN "nick_check" ELSE "nick_reject")
    /\ UNCHANGED <<status, clients, users, channels, chan, cchannels, outbox, sockOk,
                   nextId, panicked>>
    /\ UNCHANGED sinkvars

NickReject(c) ==
    /\ pc[c] = "nick_reject"
    /\ IF sockOk[c]
       THEN /\ Deliver(c, <<make_reply_msg(nick_or_star(c), "432",
                                           <<loc[c].name, "Erroneus nickname">>)>>)
            /\ Finish(c, TRUE)
       ELSE Finish(c, FALSE) /\ UNCHANGED outbox
    /\ UNCHANGED <<status, clients, users, channels, chan, cchannels, sockOk, cmds,
                   nextId, panicked>>
    /\ UNCHANGED sinkvars

\* A variant of handle_nick's look-up step that stores the requested nick before
\* by_nick is consulted, so that a refused request still renames the client.
NickCheck_StoresFirst(c) ==
    /\ pc[c] = "nick_check"
    /\ CanAcquire(c)
    /\ LET n == loc[c].name
       IN /\ status' = [status EXCEPT ![c].nick = n]
          /\ IF to_ascii_uppercase(n) \in DOMAIN users
             THEN command_error(c, "433", <<n, "Nickname is already in use">>)
             ELSE /\ UNCHANGED outbox
                  /\ IF status[c].st = "Unregistered"
                     THEN IF status[c].username # None /\ status[c].realname # None
                          THEN Goto(c, "reg_lock_clients") /\ UNCHANGED loc
                          ELSE Finish(c, TRUE)
                     ELSE /\ loc' = [loc EXCEPT ![c].arg = status[c].nick,
                                                ![c].msg = UserMsg(c, "NICK", <<n>>)]
                          /\ Goto(c, "nick_rekey")
    /\ UNCHANGED <<clients, users, channels, chan, cchannels, sockOk, cmds, nextId, panicked>>
    /\ UNCHANGED sinkvars

\* handle_nick from the look-up in by_nick to the first await after it.  The
\* read guard of the look-up is gone before the nick is stored.
NickCheck(c) ==
    /\ pc[c] = "nick_check"
    /\ CanAcquire(c)
    /\ LET n == loc[c].name
       IN IF to_ascii_uppercase(n) \in DOMAIN users
          THEN command_error(c, "433", <<n, "Nickname is already in use">>) /\ UNCHANGED status
          ELSE /\ status' = [status EXCEPT ![c].nick = n]
               /\ UNCHANGED outbox
               /\ IF status[c].st = "Unregistered"
                  THEN IF status[c].username # None /\ status[c].realname # None
                       THEN Goto(c, "reg_lock_clients") /\ UNCHANGED loc
                       ELSE Finish(c, TRUE)
                  ELSE /\ loc' = [loc EXCEPT ![c].arg = status[c].nick,
                                             ![c].msg = UserMsg(c, "NICK", <<n>>)]
                       /\ Goto(c, "nick_rekey")
    /\ UNCHANGED <<clients, users, channels, chan, cchannels, sockOk, cmds, nextId, panicked>>
    /\ UNCHANGED sinkvars

\* The re-keying of by_nick and the send to the client itself that opens
\* Client::broadcast(.., true).  unwrap of a missing old entry panics; the
\* unwinding task drops its Client.
NickRekey(c) ==
    /\ pc[c] = "nick_rekey"
    /\ CanAcquire(c)
    /\ LET old == to_ascii_uppercase(loc[c].arg)
           new == to_ascii_uppercase(loc[c].name)
       IN IF old \notin DOMAIN users
          THEN /\ panicked' = panicked \cup {c}
               /\ Finish(c, FALSE)
               /\ UNCHANGED <<users, outbox>>
          ELSE /\ users' = [k \in (DOMAIN users \ {old}) \cup {new} |->
                              IF k = new THEN users[old] ELSE users[k]]
               /\ UNCHANGED panicked
               /\ IF sockOk[c]
                  THEN /\ Deliver(c, <<loc[c].msg>>)
                       /\ loc' = [loc EXCEPT ![c].sent = {c},
                                             ![c].chans = Range(cchannels[c]),
                                             ![c].ret = "nick"]
                       /\ Goto(c, "bc_chan")
                  ELSE Finish(c, FALSE) /\ UNCHANGED outbox
    /\ UNCHANGED <<status, clients, channels, chan, cchannels, sockOk, cmds, nextId>>
    /\ UNCHANGED sinkvars

RecvUser(c) ==
    /\ Recv(c, "USER")
    /\ \E u \in UserArgs : loc' = [loc EXCEPT ![c].name = u, ![c].arg = "real"]
    /\ Goto(c, "user_start")
    /\ UNCHANGED <<status, clients, users, channels, chan, cchannels, outbox, sockOk,
                   nextId, panicked>>
    /\ UNCHANGED sinkvars

UserStart(c) ==
    /\ pc[c] = "user_start"
    /\ LET username == make_valid_username(MaxNameLength, loc[c].name)
       IN IF username = None
          THEN /\ IF sockOk[c]
                  THEN Deliver(c, <<[src |-> <<ServerName>>, cmd |-> "NOTICE",
                                     params |-> <<nick_or_star(c), "*** Your username is invalid.">>],
                                    [src |-> <<>>, cmd |-> "ERROR",
                                     params |-> <<get_host(c), "Invalid username">>]>>)
                  ELSE UNCHANGED outbox
               /\ Finish(c, FALSE)
               /\ UNCHANGED status
          ELSE IF status[c].st # "Unregistered"
          THEN command_error(c, "462", <<"You may not reregister">>) /\ UNCHANGED status
          ELSE /\ status' = [status EXCEPT ![c].username = username, ![c].realname = loc[c].arg]
               /\ UNCHANGED outbox
               /\ IF status[c].nick # None
                  THEN Goto(c, "reg_lock_clients") /\ UNCHANGED loc
                  ELSE Finish(c, TRUE)
    /\ UNCHANGED <<clients, users, channels, chan, cchannels, sockOk, cmds, nextId, panicked>>
    /\ UNCHANGED sinkvars

\* ---------------------------------------------------------- registration
\* Client::try_begin_registration after the match on the three stashed
\* fields: the look-up of the own Weak in by_addr.
RegLockClients(c) ==
    /\ pc[c] = "reg_lock_clients"
    /\ CanAcquire(c)
    /\ IF c \in clients
       THEN Goto(c, "reg_lock_users") /\ UNCHANGED loc
       ELSE Finish(c, FALSE)
    /\ UNCHANGED <<status, clients, users, channels, chan, cchannels, outbox, sockOk, cmds,
                   nextId, panicked>>
    /\ UNCHANGED sinkvars

WelcomeMsgs(nick) ==
    <<make_reply_msg(nick, "001", <<"Welcome">>),
      make_reply_msg(nick, "002", <<"Your host">>),
      make_reply_msg(nick, "003", <<"Created">>),
      make_reply_msg(nick, "004", <<ServerName>>),
      make_reply_msg(nick, "005", <<"CASEMAPPING=ascii", "are supported by this server">>)>>

\* try_begin_registration without the contains_key test: the insert replaces
\* whatever by_nick held under the key.
RegLockUsers_NoCheck(c) ==
    /\ pc[c] = "reg_lock_users"
    /\ CanAcquire(c)
    /\ LET key == to_ascii_uppercase(status[c].nick)
       IN /\ users' = [k \in DOMAIN users \cup {key} |-> IF k = key THEN c ELSE users[k]]
          /\ status' = [status EXCEPT ![c] = Normal(@.nick, @.username, @.realname)]
          /\ \E hook \in RegHookOutcomes :
               IF hook = "true"
               THEN /\ loc' = [loc EXCEPT ![c].todo = WelcomeMsgs(status[c].nick),
                                          ![c].ret = "reg"]
                    /\ Goto(c, "welcome")
                    /\ UNCHANGED outbox
               ELSE close_with_error(c, "Rejected by server")
    /\ UNCHANGED <<clients, channels, chan, cchannels, sockOk, cmds, nextId, panicked>>
    /\ UNCHANGED sinkvars

\* The check and the insert under one write guard of by_nick, then the
\* on_client_registering hook.
RegLockUsers(c) ==
    /\ pc[c] = "reg_lock_users"
    /\ CanAcquire(c)
    /\ LET key == to_ascii_uppercase(status[c].nick)
       IN IF key \in DOMAIN users
          THEN close_with_error(c, "Overridden") /\ UNCHANGED <<users, status>>
          ELSE /\ users' = users @@ (key :> c)
               /\ status' = [status EXCEPT ![c] = Normal(@.nick, @.username, @.realname)]
               /\ \E hook \in RegHookOutcomes :
                    IF hook = "true"
                    THEN /\ loc' = [loc EXCEPT ![c].todo = WelcomeMsgs(status[c].nick),
                                               ![c].ret = "reg"]
                         /\ Goto(c, "welcome")
                         /\ UNCHANGED outbox
                    ELSE close_with_error(c, "Rejected by server")
    /\ UNCHANGED <<clients, channels, chan, cchannels, sockOk, cmds, nextId, panicked>>
    /\ UNCHANGED sinkvars

\* Client::finish_registration: send_all of 001..004 and send_issupport, one
\* socket write per step.
Welcome(c) ==
    /\ pc[c] = "welcome"
    /\ IF sockOk[c]
       THEN /\ Deliver(c, <<Head(loc[c].todo)>>)
            /\ loc' = [loc EXCEPT ![c].todo = Tail(@)]
            /\ Goto(c, IF Tail(loc[c].todo) = <<>> THEN "lusers_users" ELSE "welcome")
       ELSE Finish(c, FALSE) /\ UNCHANGED outbox
    /\ UNCHANGED <<status, clients, users, channels, chan, cchannels, sockOk, cmds,
                   nextId, panicked>>
    /\ UNCHANGED sinkvars

\* Client::send_lusers: by_nick is counted (and the mode of every user read)
\* under its read guard, then by_channel, then by_addr, each on its own.
LusersUsers(c) ==
    /\ pc[c] = "lusers_users"
    /\ CanAcquire(c)
    /\ \A u \in Range(users) : Upgradable(u) => CanReadClient(u)
    /\ loc' = [loc EXCEPT ![c].nu = Cardinality(DOMAIN users)]
    /\ Goto(c, "lusers_channels")
    /\ UNCHANGED <<status, clients, users, channels, chan, cchannels, outbox, sockOk, cmds,
                   nextId, panicked>>
    /\ UNCHANGED sinkvars

LusersChannels(c) ==
    /\ pc[c] = "lusers_channels"
    /\ CanAcquire(c)
    /\ loc' = [loc EXCEPT ![c].nc = Cardinality(DOMAIN channels)]
    /\ Goto(c, "lusers_clients")
    /\ UNCHANGED <<status, clients, users, channels, chan, cchannels, outbox, sockOk, cmds,
                   nextId, panicked>>
    /\ UNCHANGED sinkvars

LusersMsgs(nick, num_users, num_channels, num_unknowns) ==
    <<make_reply_msg(nick, "251", <<NumStr(num_users), NumStr(0)>>),
      make_reply_msg(nick, "252", <<NumStr(0)>>),
      make_reply_msg(nick, "253", <<NumStr(num_unknowns)>>),
      make_reply_msg(nick, "254", <<NumStr(num_channels)>>),
      make_reply_msg(nick, "255", <<NumStr(num_users)>>),
      make_reply_msg(nick, "265", <<NumStr(num_users), NumStr(num_users)>>),
      make_reply_msg(nick, "266", <<NumStr(num_users), NumStr(num_users)>>)>>

\* The usize subtraction clients.len() - num_users: below zero it panics
\* where overflow checks are compiled in and wraps where they are not.
OverflowChecks == BOOLEAN

LusersClients(c) ==
    /\ pc[c] = "lusers_clients"
    /\ CanAcquire(c)
    /\ LET num_unknowns == Cardinality(clients) - loc[c].nu
           motd == IF loc[c].ret = "reg"
                   THEN <<make_reply_msg(get_nick(c), "422", <<"MOTD File is missing">>)>>
                   ELSE <<>>
           go == /\ loc' = [loc EXCEPT ![c].todo = LusersMsgs(get_nick(c), loc[c].nu, loc[c].nc,
                                                              num_unknowns) \o motd]
                 /\ Goto(c, "reply_send")
                 /\ UNCHANGED panicked
       IN IF num_unknowns >= 0
          THEN go
          ELSE \E checked \in OverflowChecks :
                 IF checked
                 THEN panicked' = panicked \cup {c} /\ Finish(c, FALSE)
                 ELSE go
    /\ UNCHANGED <<status, clients, users, channels, chan, cchannels, outbox, sockOk, cmds,
                   nextId>>
    /\ UNCHANGED sinkvars

\* The rest of a reply: one socket write per step, Ok after the last.
ReplySend(c) ==
    /\ pc[c] = "reply_send"
    /\ IF sockOk[c]
       THEN /\ Deliver(c, <<Head(loc[c].todo)>>)
            /\ IF Tail(loc[c].todo) = <<>>
               THEN Finish(c, TRUE)
               ELSE loc' = [loc EXCEPT ![c].todo = Tail(@)] /\ UNCHANGED pc
       ELSE Finish(c, FALSE) /\ UNCHANGED outbox
    /\ UNCHANGED <<status, clients, users, channels, chan, cchannels, sockOk, cmds,
                   nextId, panicked>>
    /\ UNCHANGED sinkvars

\* ------------------------------------------------------------------ MODE
\* BaseMode::apply_modestring on a ChannelMode, whose only flag is n: the
\* bytes of the modestring are walked with the running sign; a flag that
\* differs from the sign is set and appended to the applied modestring, with
\* its sign when the sign changed or the applied string is empty; a byte
\* without a flag is remembered as unknown.
RECURSIVE apply_mode_bytes(_, _, _, _, _, _)
apply_mode_bytes(bytes, flag, positive, last_positive_applied, applied, unknown) ==
    IF bytes = <<>>
    THEN [no_external_msgs |-> flag, applied |-> applied, unknown |-> unknown]
    ELSE LET b == Head(bytes)
             rest == Tail(bytes)
         IN IF b = "+" THEN apply_mode_bytes(rest, flag, TRUE, last_positive_applied, applied, unknown)
            ELSE IF b = "-" THEN apply_mode_bytes(rest, flag, FALSE, last_positive_applied, applied, unknown)
            ELSE IF b # "n" THEN apply_mode_bytes(rest, flag, positive, last_positive_applied, applied, b)
            ELSE IF flag # positive
            THEN LET positive_changed == applied = <<>> \/ positive # last_positive_applied
                     sign == IF positive_changed
                             THEN <<IF positive THEN "+" ELSE "-">>
                             ELSE <<>>
                 IN apply_mode_bytes(rest, positive, positive, positive,
                                     applied \o sign \o <<b>>, unknown)
            ELSE apply_mode_bytes(rest, flag, positive, last_positive_applied, applied, unknown)

apply_modestring(mode, modestring) ==
    apply_mode_bytes(modestring, mode.no_external_msgs, TRUE, TRUE, <<>>, None)

\* The targets and modestrings clients send, a modestring as its bytes.
ModeTargets == {"#a", "#b"}
ModeStrings == {<<"-", "n">>, <<"+", "n">>, <<"-", "n", "+", "n">>}

\* handle_mode takes the write lock of its own client and keeps it to the end.
RecvMode(c) ==
    /\ Recv(c, "MODE")
    /\ status[c].st = "Normal"
    /\ \E t \in ModeTargets : \E m \in ModeStrings :
          loc' = [loc EXCEPT ![c].name = t, ![c].todo = m]
    /\ Goto(c, "mode_lock_channels")
    /\ UNCHANGED <<status, clients, users, channels, chan, cchannels, outbox, sockOk,
                   nextId, panicked>>
    /\ UNCHANGED sinkvars

\* The look-up in by_channel; its guard lives to the end of the if-let.
ModeLockChannels(c) ==
    /\ pc[c] = "mode_lock_channels"
    /\ CanAcquire(c)
    /\ LET key == to_ascii_uppercase(loc[c].name)
       IN IF key \in DOMAIN channels
          THEN /\ loc' = [loc EXCEPT ![c].ch = channels[key]]
               /\ Goto(c, "mode_write_channel")
               /\ UNCHANGED outbox
          ELSE command_error(c, "403", <<loc[c].name, "No such channel">>)
    /\ UNCHANGED <<status, clients, users, channels, chan, cchannels, sockOk, cmds,
                   nextId, panicked>>
    /\ UNCHANGED sinkvars

\* handle_channel_mode: the channel's write lock, apply_modestring, the reply
\* to an unknown mode byte.
ModeWriteChannel(c) ==
    /\ pc[c] = "mode_write_channel"
    /\ CanAcquire(c)
    /\ LET r == apply_modestring(chan[loc[c].ch].mode, loc[c].todo)
           next == IF r.applied # <<>>
                   THEN /\ loc' = [loc EXCEPT ![c].todo = r.applied]
                        /\ Goto(c, "mode_read_members")
                   ELSE Finish(c, TRUE)
       IN /\ chan' = [chan EXCEPT ![loc[c].ch].mode = [no_external_msgs |-> r.no_external_msgs]]
          /\ IF r.unknown = None
             THEN next /\ UNCHANGED outbox
             ELSE IF sockOk[c]
             THEN Deliver(c, <<make_reply_msg(get_nick(c), "472", <<r.unknown>>)>>) /\ next
             ELSE Finish(c, FALSE) /\ UNCHANGED outbox
    /\ UNCHANGED <<status, clients, users, channels, cchannels, sockOk, cmds,
                   nextId, panicked>>
    /\ UNCHANGED sinkvars

\* Channel::send(message, None): the members whose Weak upgrades.
ModeReadMembers(c) ==
    /\ pc[c] = "mode_read_members"
    /\ CanAcquire(c)
    /\ loc' = [loc EXCEPT ![c].pending = {u \in chan[loc[c].ch].users : Upgradable(u)},
                          ![c].msg = UserMsg(c, "MODE", <<loc[c].name, loc[c].todo>>),
                          ![c].res = "ok"]
    /\ Goto(c, "mode_send")
    /\ UNCHANGED <<status, clients, users, channels, chan, cchannels, outbox, sockOk, cmds,
                   nextId, panicked>>
    /\ UNCHANGED sinkvars

\* The joined futures of Channel::send: each awaits the read lock of its
\* member, the requester included.
ModeSend(c) ==
    /\ pc[c] = "mode_send"
    /\ IF loc[c].pending = {}
       THEN Finish(c, loc[c].res = "ok") /\ UNCHANGED outbox
       ELSE \E u \in loc[c].pending :
              /\ CanReadClient(u)
              /\ ChannelSendTo(c, u, {})
              /\ UNCHANGED pc
    /\ UNCHANGED <<status, clients, users, channels, chan, cchannels, sockOk, cmds,
                   nextId, panicked>>
    /\ UNCHANGED sinkvars

\* ------------------------------------------------------------ the codec
\* A String is the sequence of its characters; a Message is
\* [tags, source, command, params] with tags a sequence of [name, value],
\* value and source an Option<String>.
ends_with(s, suffix) ==
    Len(s) >= Len(suffix) /\ SubSeq(s, Len(s) - Len(suffix) + 1, Len(s)) = suffix

\* char::is_whitespace, on the characters the inputs are drawn from.
WhiteSpace == {" ", "\t", "\r", "\n"}

RECURSIVE trim_left(_)
trim_left(s) == IF s # <<>> /\ Head(s) \in WhiteSpace THEN trim_left(Tail(s)) ELSE s

\* str::find(char): the position of the first occurrence (from 1), 0 for None.
find(s, ch) ==
    IF \E i \in 1..Len(s) : s[i] = ch
    THEN CHOOSE i \in 1..Len(s) : s[i] = ch /\ \A j \in 1..(i - 1) : s[j] # ch
    ELSE 0

contains(s, ch) == find(s, ch) # 0

RECURSIVE split(_, _)
split(s, ch) ==
    LET i == find(s, ch)
    IN IF i = 0 THEN <<s>>
       ELSE <<SubSeq(s, 1, i - 1)>> \o split(SubSeq(s, i + 1, Len(s)), ch)

RECURSIVE join(_, _)
join(items, sep) ==
    IF items = <<>> THEN <<>>
    ELSE IF Len(items) = 1 THEN items[1]
    ELSE items[1] \o sep \o join(Tail(items), sep)

MessageTag(name, value) == [name |-> name, value |-> value]

MessageTag_to_string(tag) ==
    IF tag.value # NoneOpt THEN tag.name \o <<"=">> \o tag.value[1] ELSE tag.name

\* The assert! that opens consume_tags.
consume_tags_assert(msg_line) == ends_with(msg_line, <<"\n">>)

parse_tag(tag) ==
    LET equal == find(tag, "=")
    IN IF equal # 0
       THEN MessageTag(SubSeq(tag, 1, equal - 1), Some(SubSeq(tag, equal + 1, Len(tag))))
       ELSE MessageTag(tag, NoneOpt)

consume_tags(line) ==
    LET new_end == Len(line) - (IF ends_with(line, <<"\r", "\n">>) THEN 2 ELSE 1)
        msg_line == trim_left(SubSeq(line, 1, new_end))
    IN IF msg_line # <<>> /\ msg_line[1] = "@"
       THEN LET next_space == find(msg_line, " ")
                tags_word == IF next_space # 0 THEN SubSeq(msg_line, 2, next_space - 1)
                             ELSE SubSeq(msg_line, 2, Len(msg_line))
                next_msg_line == IF next_space # 0
                                 THEN SubSeq(msg_line, next_space, Len(msg_line))
                                 ELSE <<>>
                words == split(tags_word, ";")
            IN [tags |-> [i \in 1..Len(words) |-> parse_tag(words[i])],
                rest |-> next_msg_line]
       ELSE [tags |-> <<>>, rest |-> msg_line]

consume_source(line) ==
    LET msg_line == trim_left(line)
    IN IF msg_line # <<>> /\ msg_line[1] = ":"
       THEN LET next_space == find(msg_line, " ")
            IN IF next_space # 0
               THEN [source |-> Some(SubSeq(msg_line, 2, next_space - 1)),
                     rest |-> SubSeq(msg_line, next_space, Len(msg_line))]
               ELSE [source |-> Some(Tail(msg_line)), rest |-> <<>>]
       ELSE [source |-> NoneOpt, rest |-> msg_line]

\* The loop of parse_command_params over the words after the command.
RECURSIVE collect_params(_)
collect_params(words) ==
    IF words = <<>> THEN <<>>
    ELSE LET param == Head(words)
         IN IF param # <<>> /\ param[1] = ":"
            THEN <<join(<<Tail(param)>> \o Tail(words), <<" ">>)>>
            ELSE IF param # <<>> THEN <<param>> \o collect_params(Tail(words))
            ELSE collect_params(Tail(words))

parse_command_params(msg_line) ==
    LET words == split(trim_left(msg_line), " ")
    IN [command |-> Head(words), params |-> collect_params(Tail(words))]

\* Message::new of a line that passes the assert.
Message_new(msg_line) ==
    LET t == consume_tags(msg_line)
        s == consume_source(t.rest)
        c == parse_command_params(s.rest)
    IN [tags |-> t.tags, source |-> s.source, command |-> c.command, params |-> c.params]

\* The line keeps the space after its tags or its source.
pop_Never(line) == line

\* String::pop
pop(line) == IF line = <<>> THEN line ELSE SubSeq(line, 1, Len(line) - 1)

RECURSIVE to_line_params(_, _)
to_line_params(params, i) ==
    IF i > Len(params) THEN <<>>
    ELSE LET param == params[i]
         IN (IF i = Len(params)
                /\ (contains(param, " ") \/ contains(param, ":") \/ param = <<>>)
             THEN <<" ", ":">> \o param
             ELSE <<" ">> \o param) \o to_line_params(params, i + 1)

to_line(m) ==
    LET tagged == IF m.tags = <<>> THEN <<>>
                  ELSE <<"@">> \o join([i \in 1..Len(m.tags) |-> MessageTag_to_string(m.tags[i])],
                                        <<";">>) \o <<" ">>
        sourced == IF m.source # NoneOpt THEN tagged \o <<":">> \o m.source[1] \o <<" ">>
                   ELSE tagged
        line == IF m.command = <<>> THEN pop(sourced)
                ELSE sourced \o m.command \o to_line_params(m.params, 1)
    IN line \o <<"\r", "\n">>

\* ------------------------------------------------------- the writer of a client
\* MessageSink::start_send: the line and one more LF go to the end of the
\* send_buffer.
start_send(buffer, item) == buffer \o to_line(item) \o <<"\n">>

\* The messages tasks send in SpecSink.
SinkMsgs ==
    {[tags |-> <<>>, source |-> NoneOpt, command |-> Chars(v), params |-> <<>>] :
        v \in {"PING", "PONG"}}

\* The tasks inside the critical section of the writer of u: they hold the
\* write guard of Client.sink.
SinkHolders(u) == {t \in Conns : pc[t] \in {"sink_ready", "sink_flush"} /\ loc[t].pending = {u}}

\* A handler of task t calls Client::send(msg) on the client u.
SendCall(t) ==
    /\ Recv(t, "PING")
    /\ \E u \in Conns : \E m \in SinkMsgs :
          loc' = [loc EXCEPT ![t].pending = {u}, ![t].msg = m]
    /\ Goto(t, "sink_lock")
    /\ UNCHANGED <<status, clients, users, channels, chan, cchannels, outbox, sockOk,
                   nextId, panicked>>
    /\ UNCHANGED sinkvars

\* A Client::send that does not wait for the write guard of the sink.
SinkLock_NoWait(t) ==
    /\ pc[t] = "sink_lock"
    /\ Goto(t, "sink_ready")
    /\ UNCHANGED <<status, clients, users, channels, chan, cchannels, outbox, sockOk, loc,
                   cmds, nextId, panicked>>
    /\ UNCHANGED sinkvars

\* Client::send: self.sink.write().await
SinkLock(t) ==
    /\ pc[t] = "sink_lock"
    /\ \A u \in loc[t].pending : SinkHolders(u) = {}
    /\ Goto(t, "sink_ready")
    /\ UNCHANGED <<status, clients, users, channels, chan, cchannels, outbox, sockOk, loc,
                   cmds, nextId, panicked>>
    /\ UNCHANGED sinkvars

\* One turn of the loop of MessageSink::poll_flush on a non-empty buffer:
\* poll_write takes the first n bytes, or fails and the send returns Err
\* with the guard dropped.  Poll::Pending is no step.
poll_write(t, u) ==
    IF sockOk[u]
    THEN /\ \E n \in 1..Len(sink[u].send_buffer) :
              sink' = [sink EXCEPT ![u].io = @ \o SubSeq(sink[u].send_buffer, 1, n),
                                   ![u].send_buffer = SubSeq(@, n + 1, Len(@))]
         /\ UNCHANGED <<pc, loc>>
    ELSE Finish(t, TRUE) /\ UNCHANGED sink

\* SinkExt::send, first half: poll_ready is poll_flush; once the buffer is
\* empty start_send appends the message.
SinkReady(t) ==
    /\ pc[t] = "sink_ready"
    /\ \E u \in loc[t].pending :
          IF sink[u].send_buffer = <<>>
          THEN /\ sink' = [sink EXCEPT ![u].send_buffer = start_send(@, loc[t].msg)]
               /\ Goto(t, "sink_flush")
               /\ UNCHANGED loc
          ELSE poll_write(t, u)
    /\ UNCHANGED <<status, clients, users, channels, chan, cchannels, outbox, sockOk,
                   cmds, nextId, panicked, completed, input, result>>

\* SinkExt::send, second half: poll_flush; with the buffer empty the send
\* returns Ok and the guard is dropped.
SinkFlush(t) ==
    /\ pc[t] = "sink_flush"
    /\ \E u \in loc[t].pending :
          IF sink[u].send_buffer = <<>>
          THEN /\ completed' = [completed EXCEPT ![u] = Append(@, loc[t].msg)]
               /\ Finish(t, TRUE)
               /\ UNCHANGED sink
          ELSE poll_write(t, u) /\ UNCHANGED completed
    /\ UNCHANGED <<status, clients, users, channels, chan, cchannels, outbox, sockOk,
                   cmds, nextId, panicked, input, result>>

\* ------------------------------------------------- the channel core alone
NickOf == <<"al", "bo", "cy", "dee">>

\* A state the server reaches by registrations alone: every connection is
\* registered under its own nick and waits for its next command.
InitChan ==
    /\ pc = [c \in Conns |-> "idle"]
    /\ status = [c \in Conns |-> Normal(NickOf[c], "~u", "real")]
    /\ clients = Conns
    /\ users = [k \in {to_ascii_uppercase(NickOf[c]) : c \in Conns} |->
                  CHOOSE c \in Conns : to_ascii_uppercase(NickOf[c]) = k]
    /\ channels = Empty
    /\ chan = Empty
    /\ cchannels = [c \in Conns |-> Empty]
    /\ outbox = [c \in Conns |-> <<>>]
    /\ sockOk = [c \in Conns |-> TRUE]
    /\ loc = [c \in Conns |-> LocIdle]
    /\ cmds = 0
    /\ nextId = 1
    /\ panicked = {}
    /\ SinkInit

NextChan ==
    \E c \in Conns :
        \/ Eof(c) \/ SockBreak(c)
        \/ RecvJoin(c) \/ JoinNext(c) \/ JoinLockChannels(c) \/ JoinReadMembers(c)
        \/ JoinWriteMembers(c) \/ JoinSend(c)
        \/ RecvPart(c) \/ PartStart(c) \/ PartReadMembers(c) \/ PartSend(c)
        \/ PartWriteMembers(c) \/ PartLockChannels(c)
        \/ RecvPrivmsg(c) \/ MsgLockChannels(c) \/ MsgNoChannel(c) \/ MsgReadMembers(c)
        \/ MsgSend(c)
        \/ RecvQuit(c) \/ QuitStart(c) \/ BcChan(c) \/ BcSend(c)
        \/ DropStart(c) \/ DropUsers(c) \/ DropClients(c)

Spec == InitChan /\ [][NextChan]_vars

\* ------------------------------------------------- one nick, several claimants
\* The nicks two NICK commands have stashed: equal under case folding.
StashedNick == <<"cy", "Cy", "cy", "Cy">>

\* A state the server reaches by connections and NICK commands alone: every
\* connection is unregistered and has stashed a nick that by_nick does not
\* hold; no USER has been sent.
InitClaim ==
    /\ pc = [c \in Conns |-> "idle"]
    /\ status = [c \in Conns |-> Unregistered(StashedNick[c], None, None)]
    /\ clients = Conns
    /\ users = Empty
    /\ channels = Empty
    /\ chan = Empty
    /\ cchannels = [c \in Conns |-> Empty]
    /\ outbox = [c \in Conns |-> <<>>]
    /\ sockOk = [c \in Conns |-> TRUE]
    /\ loc = [c \in Conns |-> LocIdle]
    /\ cmds = 0
    /\ nextId = 1
    /\ panicked = {}
    /\ SinkInit

NextClaim ==
    \E c \in Conns :
        \/ Eof(c) \/ SockBreak(c)
        \/ RecvUser(c) \/ UserStart(c)
        \/ RegLockClients(c) \/ RegLockUsers(c) \/ Welcome(c)
        \/ LusersUsers(c) \/ LusersChannels(c) \/ LusersClients(c) \/ ReplySend(c)
        \/ BcChan(c)
        \/ DropStart(c) \/ DropUsers(c) \/ DropClients(c)

SpecClaim == InitClaim /\ [][NextClaim]_vars

\* ------------------------------------------------- channel modes
\* A state the server reaches by JOINs alone: every connection is registered
\* and a member of #a.
InitMode ==
    /\ pc = [c \in Conns |-> "idle"]
    /\ status = [c \in Conns |-> Normal(NickOf[c], "~u", "real")]
    /\ clients = Conns
    /\ users = [k \in {to_ascii_uppercase(NickOf[c]) : c \in Conns} |->
                  CHOOSE c \in Conns : to_ascii_uppercase(NickOf[c]) = k]
    /\ channels = ("#A" :> 1)
    /\ chan = (1 :> [Channel_new("#a") EXCEPT !.users = Conns])
    /\ cchannels = [c \in Conns |-> ("#A" :> 1)]
    /\ outbox = [c \in Conns |-> <<>>]
    /\ sockOk = [c \in Conns |-> TRUE]
    /\ loc = [c \in Conns |-> LocIdle]
    /\ cmds = 0
    /\ nextId = 2
    /\ panicked = {}
    /\ SinkInit

NextMode ==
    \E c \in Conns :
        \/ Eof(c) \/ SockBreak(c)
        \/ RecvMode(c) \/ ModeLockChannels(c) \/ ModeWriteChannel(c)
        \/ ModeReadMembers(c) \/ ModeSend(c)
        \/ BcChan(c) \/ BcSend(c)
        \/ DropStart(c) \/ DropUsers(c) \/ DropClients(c)

\* The runtime runs every task that can take a step.
SpecMode == InitMode /\ [][NextMode]_vars /\ WF_vars(NextMode)

\* ------------------------------------------------- the writers, byte by byte
\* Tasks of registered connections send to the sockets of one another.
NextSink ==
    \E c \in Conns :
        \/ SockBreak(c)
        \/ SendCall(c) \/ SinkLock(c) \/ SinkReady(c) \/ SinkFlush(c)

SpecSink == InitChan /\ [][NextSink]_vars

\* ------------------------------------------------- a server with a low chan_limit
\* ServerSettings.chan_limit is set by the embedding program; here it is one.
ConfiguredChanLimit == 1

NextLimit ==
    \E c \in Conns :
        \/ Eof(c) \/ SockBreak(c)
        \/ RecvJoin(c) \/ JoinNextAt(c, ConfiguredChanLimit) \/ JoinLockChannels(c)
        \/ JoinReadMembers(c) \/ JoinWriteMembers(c) \/ JoinSend(c)
        \/ BcChan(c) \/ BcSend(c)
        \/ DropStart(c) \/ DropUsers(c) \/ DropClients(c)

SpecLimit == InitChan /\ [][NextLimit]_vars

\* ------------------------------------------------- the end of a session
\* A state the server reaches by JOINs alone: every connection is registered
\* and a member of both #a and #b.
InitQuit ==
    /\ pc = [c \in Conns |-> "idle"]
    /\ status = [c \in Conns |-> Normal(NickOf[c], "~u", "real")]
    /\ clients = Conns
    /\ users = [k \in {to_ascii_uppercase(NickOf[c]) : c \in Conns} |->
                  CHOOSE c \in Conns : to_ascii_uppercase(NickOf[c]) = k]
    /\ channels = ("#A" :> 1) @@ ("#B" :> 2)
    /\ chan = (1 :> [Channel_new("#a") EXCEPT !.users = Conns])
              @@ (2 :> [Channel_new("#b") EXCEPT !.users = Conns])
    /\ cchannels = [c \in Conns |-> ("#A" :> 1) @@ ("#B" :> 2)]
    /\ outbox = [c \in Conns |-> <<>>]
    /\ sockOk = [c \in Conns |-> TRUE]
    /\ loc = [c \in Conns |-> LocIdle]
    /\ cmds = 0
    /\ nextId = 3
    /\ panicked = {}
    /\ SinkInit

\* The three ends of a session: QUIT, the end of the stream, and a handler
\* that returns an error (a PART or PRIVMSG whose fan-out met a broken socket).
NextQuit ==
    \E c \in Conns :
        \/ Eof(c) \/ SockBreak(c)
        \/ RecvQuit(c) \/ QuitStart(c) \/ BcChan(c) \/ BcSend(c)
        \/ DropStart(c) \/ DropUsers(c) \/ DropClients(c)
        \/ RecvPrivmsg(c) \/ MsgLockChannels(c) \/ MsgNoChannel(c) \/ MsgReadMembers(c)
        \/ MsgSend(c)

SpecQuit == InitQuit /\ [][NextQuit]_vars

\* ------------------------------------------- registration and renames
\* A state the server reaches by connections and registrations alone: some
\* connections are registered under their own nick, the others are not
\* connected yet.
InitReg ==
    \E R \in SUBSET Conns :
        /\ pc = [c \in Conns |-> IF c \in R THEN "idle" ELSE "closed"]
        /\ status = [c \in Conns |-> IF c \in R THEN Normal(NickOf[c], "~u", "real")
                                     ELSE Unregistered(None, None, None)]
        /\ clients = R
        /\ users = [k \in {to_ascii_uppercase(NickOf[c]) : c \in R} |->
                      CHOOSE c \in R : to_ascii_uppercase(NickOf[c]) = k]
        /\ channels = Empty
        /\ chan = Empty
        /\ cchannels = [c \in Conns |-> Empty]
        /\ outbox = [c \in Conns |-> <<>>]
        /\ sockOk = [c \in Conns |-> TRUE]
        /\ loc = [c \in Conns |-> LocIdle]
        /\ cmds = 0
        /\ nextId = 1
        /\ panicked = {}
        /\ SinkInit

NextReg ==
    \E c \in Conns :
        \/ Connect(c) \/ Eof(c) \/ SockBreak(c)
        \/ RecvNick(c) \/ NickReject(c) \/ NickCheck(c) \/ NickRekey(c)
        \/ RecvUser(c) \/ UserStart(c)
        \/ RegLockClients(c) \/ RegLockUsers(c) \/ Welcome(c)
        \/ LusersUsers(c) \/ LusersChannels(c) \/ LusersClients(c) \/ ReplySend(c)
        \/ BcChan(c)
        \/ DropStart(c) \/ DropUsers(c) \/ DropClients(c)

SpecReg == InitReg /\ [][NextReg]_vars

\* Registration, renames and the messages that reach no handler.
NextDispatch ==
    \/ NextReg
    \/ \E c \in Conns : RecvOther(c) \/ Dispatch(c)

SpecDispatch == InitReg /\ [][NextDispatch]_vars

\* ================================================================ claims
Idle(c) == pc[c] = "idle"
Gone(c) == pc[c] = "gone"

\* The channel objects by_channel still maps a name to.
Listed == Range(channels)

\* C1: membership is bidirectional.  Whenever connection c is not inside one
\* of its own handlers (it waits for a command, or its session is over), c is
\* a key of the member map of a channel of by_channel exactly if c's
\* joined-channel map has that channel under its upper-cased name.
C1_MembershipBidirectional ==
    \A c \in Conns : (Idle(c) \/ Gone(c)) =>
        \A id \in Listed :
            LET key == to_ascii_uppercase(chan[id].name)
            IN (c \in chan[id].users) <=>
               (key \in DOMAIN cchannels[c] /\ cchannels[c][key] = id)

\* C4: after the teardown of connection c, c is a key of no channel's member
\* map, c's nick is no key of by_nick and c is no key of by_addr.
C4_TeardownRemoves ==
    \A c \in Conns : Gone(c) =>
        /\ \A id \in DOMAIN chan : c \notin chan[id].users
        /\ to_ascii_uppercase(get_nick(c)) \notin DOMAIN users
        /\ c \notin clients

JoinPartLabels == {"join_next", "join_lock_channels", "join_read_members",
                   "join_write_members", "join_send", "part_start", "part_read_members",
                   "part_send", "part_write_members", "part_lock_channels"}

\* C5: whenever no JOIN or PART handler is running, a channel object is in
\* by_channel exactly if its member map is non-empty.
C5_PresentIffNonEmpty ==
    (\A c \in Conns : pc[c] \notin JoinPartLabels) =>
        \A id \in DOMAIN chan : (id \in Listed) <=> (chan[id].users # {})

\* Task t waits for a lock that a task of D holds.
WaitsOn(t, D) ==
    \E i \in 1..Len(Wants(t)) : \E u \in D : \E h \in Holds(u) : Conflict(h, Wants(t)[i])

\* C6: deadlock freedom.  There is no set of session tasks each of which
\* waits for a lock that a task of the set holds.
C6_DeadlockFree ==
    \A D \in SUBSET Conns : D # {} => \E t \in D : ~WaitsOn(t, D)

\* The place of a lock in the order by_channel, by_nick, by_addr,
\* channel.members, connection.channels; 0 for a lock the order does not name.
LockRank(k) ==
    CASE k = "by_channel" -> 1
      [] k = "by_nick"    -> 2
      [] k = "by_addr"    -> 3
      [] k = "members"    -> 4
      [] k = "cchannels"  -> 5
      [] OTHER            -> 0

\* C7: lock ordering.  A task that holds a lock of the order and awaits
\* another one awaits a lock that comes later in the order.
C7_LockOrder ==
    \A t \in Conns : \A i \in 1..Len(Wants(t)) : \A h \in Holds(t) :
        (LockRank(h.k) > 0 /\ LockRank(Wants(t)[i].k) > 0)
            => LockRank(h.k) < LockRank(Wants(t)[i].k)

\* The number of copies of message m in the sequence s.
Count(s, m) == Cardinality({i \in 1..Len(s) : s[i] = m})

\* C9: on a successful JOIN the joiner receives its own JOIN first, then a
\* 353 whose names contain its own nick, then 366.  Stated on the stream of
\* the joiner: every 366 for a channel is preceded by a 353 for it that
\* carries the joiner's nick, and that by the joiner's own JOIN of it.
C9_JoinOrder ==
    \A c \in Conns : \A i \in 1..Len(outbox[c]) :
        LET end == outbox[c][i]
        IN end.cmd = "366" =>
             \E j \in 1..(i - 1) : \E k \in 1..(j - 1) :
                 /\ outbox[c][j].cmd = "353"
                 /\ outbox[c][j].params[3] = end.params[2]
                 /\ get_nick(c) \in outbox[c][j].params[4]
                 /\ outbox[c][k] = UserMsg(c, "JOIN", <<end.params[2]>>)

\* C10: a PRIVMSG to an existing channel that the hook accepts is delivered
\* exactly once to every live member other than the sender and never to the
\* sender.  Stated where the fan-out of Channel::send has completed: every
\* other member whose session and socket are up has one copy on its stream,
\* the sender has none; and no stream ever has two copies.
C10_PrivmsgOncePerMember ==
    \A c \in Conns : pc[c] = "msg_send" =>
        /\ Count(outbox[c], loc[c].msg) = 0
        /\ \A u \in Conns : Count(outbox[u], loc[c].msg) <= 1
        /\ loc[c].pending = {} =>
             \A u \in chan[loc[c].ch].users \ {c} :
                 (Upgrades(u) /\ sockOk[u]) => Count(outbox[u], loc[c].msg) = 1

\* A fan-out to another live member has completed.
C10_Witness ==
    \E c \in Conns : \E u \in Conns \ {c} :
        /\ pc[c] = "msg_send" /\ loc[c].pending = {}
        /\ c \in chan[loc[c].ch].users
        /\ u \in chan[loc[c].ch].users
        /\ Upgrades(u) /\ sockOk[u]
        /\ Count(outbox[u], loc[c].msg) = 1

\* A registered connection whose session is up.
LiveRegistered(c) == status[c].st = "Normal" /\ Upgrades(c)

\* C2: nick uniqueness.  No two live registered connections hold nicks that
\* are equal under ASCII case folding.  Checked where both wait for their
\* next command, which is where the claim asks least.
C2_NickUnique ==
    \A a \in Conns : \A b \in Conns \ {a} :
        (LiveRegistered(a) /\ LiveRegistered(b) /\ Idle(a) /\ Idle(b))
            => to_ascii_uppercase(get_nick(a)) # to_ascii_uppercase(get_nick(b))

\* C3: for every registered connection c that is not inside its own NICK
\* handler, by_nick has an entry under c's upper-cased nick and the entry
\* refers to c.
C3_ByNickRefersToSelf ==
    \A c \in Conns : (status[c].st = "Normal" /\ Idle(c)) =>
        /\ to_ascii_uppercase(get_nick(c)) \in DOMAIN users
        /\ users[to_ascii_uppercase(get_nick(c))] = c

WelcomeOrder == <<"001", "002", "003", "004", "005", "251", "252", "253", "254", "255",
                  "265", "266", "422">>

IsWelcome(m) == \E i \in 1..Len(WelcomeOrder) : WelcomeOrder[i] = m.cmd

RegistrationLabels == {"reg_lock_clients", "reg_lock_users", "welcome", "lusers_users",
                       "lusers_channels", "lusers_clients", "reply_send"}

\* C8: welcome sequence.  The welcome numerics on the stream of a connection
\* are, in this order and each once, a prefix of 001 .. 005, 251 .. 255, 265,
\* 266, 422, each from the server name and addressed to the nick; and once
\* the registration is over on a connection whose socket accepts writes, the
\* connection has received all of them.
C8_WelcomeSequence ==
    \A c \in Conns :
        LET w == SelectSeq(outbox[c], IsWelcome)
        IN /\ Len(w) <= Len(WelcomeOrder)
           /\ \A i \in 1..Len(w) : /\ w[i].cmd = WelcomeOrder[i]
                                   /\ w[i].src = <<ServerName>>
                                   /\ w[i].params[1] = get_nick(c)
           /\ (w # <<>> /\ sockOk[c] /\ pc[c] \notin RegistrationLabels)
                  => Len(w) = Len(WelcomeOrder)

\* The step of c's NICK handler that refuses the request: the 432 of an invalid
\* nick, or the 433 of a nick whose folded form is a key of by_nick.
NickRefusal(c) ==
    /\ pc'[c] # pc[c]
    /\ \/ pc[c] = "nick_reject"
       \/ pc[c] = "nick_check" /\ to_ascii_uppercase(loc[c].name) \in DOMAIN users

\* C11: a refused NICK changes nothing.  The step that refuses the request
\* leaves the requester's status (nick, username, realname, registration
\* state) and the registries by_nick, by_addr and by_channel as they were.
C11_RejectedNickNoChange ==
    [][\A c \in Conns :
          NickRefusal(c) =>
              /\ status' = status /\ users' = users /\ clients' = clients
              /\ channels' = channels /\ chan' = chan /\ cchannels' = cchannels]_vars

\* A registered client has been answered 433 and is back at its read loop,
\* still known to by_nick under its own nick.
C11_Witness ==
    \E c \in Conns :
        /\ pc[c] = "idle" /\ LiveRegistered(c)
        /\ to_ascii_uppercase(status[c].nick) \in DOMAIN users
        /\ users[to_ascii_uppercase(status[c].nick)] = c
        /\ \E i \in 1..Len(outbox[c]) : outbox[c][i].cmd = "433"

QuitsFrom(d, u) ==
    {i \in 1..Len(outbox[u]) :
        outbox[u][i].cmd = "QUIT" /\ outbox[u][i].src = get_extended_prefix(d)}

\* The broadcast that announces the end of d's session is over.
Departed(d) == pc[d] \in {"drop_users", "drop_clients", "gone"}

\* u's session is up, its socket accepts writes and it is a member of a
\* channel d was a member of.  No connection joins in SpecQuit, so a member
\* now was a member during the whole broadcast.
LiveSharer(d, u) ==
    /\ Upgrades(u) /\ sockOk[u]
    /\ \E id \in DOMAIN chan : {d, u} \subseteq chan[id].users

\* C13: the end of a registered session is announced once.  No connection
\* ever holds two QUITs of another one, however many channels they share, and
\* once d's teardown has finished its broadcast every other live connection
\* that shares a channel with d holds exactly one QUIT with d's prefix;
\* whether the session ended by QUIT, by the end of the stream or by a handler
\* error.
C13_QuitExactlyOnce ==
    \A d \in Conns : \A u \in Conns \ {d} :
        /\ Cardinality(QuitsFrom(d, u)) <= 1
        /\ (Departed(d) /\ LiveSharer(d, u)) => Cardinality(QuitsFrom(d, u)) = 1

\* d is gone and a live connection that shares both channels with it holds
\* its QUIT.
C13_Witness ==
    \E d \in Conns : \E u \in Conns \ {d} :
        /\ pc[d] = "gone" /\ LiveSharer(d, u)
        /\ \A id \in DOMAIN chan : {d, u} \subseteq chan[id].users
        /\ Cardinality(QuitsFrom(d, u)) = 1

\* A step of c's JOIN handler on a name whose folded form is already a key of
\* c's joined-channel map.
RejoinStep(c) ==
    /\ pc'[c] # pc[c]
    /\ \/ /\ pc[c] = "join_next" /\ loc[c].todo # <<>>
          /\ starts_with_hash(Head(loc[c].todo))
          /\ to_ascii_uppercase(Head(loc[c].todo)) \in DOMAIN cchannels[c]
       \/ /\ pc[c] = "join_lock_channels"
          /\ to_ascii_uppercase(loc[c].name) \in DOMAIN cchannels[c]

\* C14: JOIN is idempotent per connection.  The handling of a name the
\* connection has already joined (under case folding) sends nothing to
\* anybody and changes neither by_channel, nor a member map, nor the
\* connection's joined-channel map, however many channels it has joined.
C14_JoinIdempotent ==
    [][\A c \in Conns :
          (RejoinStep(c) /\ sockOk[c]) =>
              /\ outbox' = outbox /\ channels' = channels
              /\ chan' = chan /\ cchannels' = cchannels]_vars

\* The reply to an unknown verb.
UnknownCommand(c) ==
    make_reply_msg(status[c].nick, "421", <<loc[c].name, "Unknown command">>)

\* C15: dispatch.  The step that ends process_message for a message without a
\* handler changes no registry and no status; it appends 421 to the stream of
\* a registered sender of an unknown verb and sends nothing in the other cases
\* (an unknown verb from an unregistered connection, a Normal verb from an
\* unregistered connection); the session goes on unless the write of the 421
\* failed.
C15_Dispatch ==
    [][\A c \in Conns :
          (pc[c] = "dispatch" /\ pc'[c] # pc[c]) =>
              /\ status' = status /\ users' = users /\ clients' = clients
              /\ channels' = channels /\ chan' = chan /\ cchannels' = cchannels
              /\ IF loc[c].name \notin DOMAIN COMMANDS /\ status[c].st = "Normal"
                 THEN sockOk[c] => /\ outbox' = [outbox EXCEPT ![c] = Append(@, UnknownCommand(c))]
                                   /\ pc'[c] = "idle"
                 ELSE outbox' = outbox /\ pc'[c] = "idle"]_vars

\* Both cases happen: a registered connection has been answered 421 and is
\* back at its read loop, while the dispatch of a JOIN from an unregistered
\* connection is under way.
C15_Witness ==
    /\ \E c \in Conns :
          /\ pc[c] = "idle" /\ status[c].st = "Normal"
          /\ \E i \in 1..Len(outbox[c]) : outbox[c][i].cmd = "421"
    /\ \E u \in Conns :
          /\ pc[u] = "dispatch" /\ status[u].st = "Unregistered"
          /\ loc[u].name \in DOMAIN COMMANDS

\* The steps of a handler that write to the members of a channel or to the
\* target of a private message.
FanOutLabels == {"join_send", "part_send", "part_write_members", "part_lock_channels",
                 "msg_send", "msg_no_channel"}

\* C16: a failed write to another peer is swallowed.  A handler that fans a
\* message out returns an error, and so ends the session of its own
\* connection, only if the write to its own socket failed.
C16_PeerFailureSwallowed ==
    [][\A c \in Conns :
          (pc[c] \in FanOutLabels /\ pc'[c] = "drop_start") => ~sockOk[c]]_vars

\* The ERROR that closes a connection whose nick was taken first.
Overridden(c) == [src |-> <<>>, cmd |-> "ERROR", params |-> <<get_host(c), "Overridden">>]

\* C17: registration claims the nick atomically.  Of the connections that
\* finish registration with the same stashed nick, a live registered one is
\* the owner of the by_nick entry of that nick, so no two are registered at a
\* time; a connection that was sent the Overridden ERROR is still
\* Unregistered and owns no entry of by_nick.
C17_AtomicClaim ==
    \A c \in Conns :
        /\ LiveRegistered(c) =>
              /\ to_ascii_uppercase(status[c].nick) \in DOMAIN users
              /\ users[to_ascii_uppercase(status[c].nick)] = c
        /\ (\E i \in 1..Len(outbox[c]) : outbox[c][i] = Overridden(c)) =>
              /\ status[c].st = "Unregistered"
              /\ c \notin Range(users)

\* Two connections claimed the same nick while both were live: one is
\* registered and owns the entry, the other was closed with Overridden.
C17_Witness ==
    \E c \in Conns : \E d \in Conns \ {c} :
        /\ LiveRegistered(c) /\ users[to_ascii_uppercase(status[c].nick)] = c
        /\ to_ascii_uppercase(status[d].nick) = to_ascii_uppercase(status[c].nick)
        /\ status[d].st = "Unregistered"
        /\ \E i \in 1..Len(outbox[d]) : outbox[d][i] = Overridden(d)

\* The teardown of c is over: Drop returned or unwound.
Over(c) == pc[c] \in {"gone", "panicked"}

\* C18: teardown always completes.  Once the teardown of a registered
\* connection is over, by_addr no longer holds its address and by_nick holds
\* no entry for it, whatever ended the session and whether or not the sends of
\* the QUIT broadcast succeeded.
C18_TeardownCompletes ==
    \A c \in Conns :
        (Over(c) /\ status[c].st = "Normal") =>
            /\ c \notin clients
            /\ c \notin Range(users)

\* C19: a channel mode change reaches every member.  The fan-out of the MODE
\* message ends: a requester that is a member of the channel does not stay in
\* Channel::send for ever.
C19_ModeTerminates ==
    \A c \in Conns :
        (pc[c] = "mode_send" /\ c \in chan[loc[c].ch].users) ~> (pc[c] # "mode_send")

\* The bytes of a sequence of messages as the sink appends them.
RECURSIVE WireBytes(_)
WireBytes(ms) == IF ms = <<>> THEN <<>> ELSE start_send(<<>>, Head(ms)) \o WireBytes(Tail(ms))

IsPrefix(p, q) == Len(p) <= Len(q) /\ SubSeq(q, 1, Len(p)) = p

\* C20: writer serialisation.  At most one task is inside the critical
\* section of a connection's writer, and the bytes that its socket took,
\* followed by those still in the send_buffer, are the messages of the send
\* calls that returned Ok, whole and in the order of their return, followed by
\* at most one more whole message (the one being sent, or one whose send
\* failed).
C20_WriterSerialised ==
    \A u \in Conns :
        /\ Cardinality(SinkHolders(u)) <= 1
        /\ LET all == sink[u].io \o sink[u].send_buffer
               done == WireBytes(completed[u])
           IN /\ IsPrefix(done, all)
              /\ \/ all = done
                 \/ \E m \in SinkMsgs : all = done \o WireBytes(<<m>>)

\* Two tasks send to one connection at a time: one is half way through the
\* bytes of its message, the other waits for the guard, and an earlier send
\* has returned.
C20_Witness ==
    \E u \in Conns : \E t1 \in Conns : \E t2 \in Conns \ {t1} :
        /\ pc[t1] = "sink_flush" /\ loc[t1].pending = {u}
        /\ sink[u].send_buffer # <<>>
        /\ Len(sink[u].send_buffer) < Len(WireBytes(<<loc[t1].msg>>))
        /\ pc[t2] = "sink_lock" /\ loc[t2].pending = {u} /\ loc[t2].msg # loc[t1].msg
        /\ Len(completed[u]) >= 1

\* The steps in which a task writes a channel message or a broadcast to the
\* sockets of the members.
FanOutSendLabels == {"join_send", "part_send", "msg_send", "bc_send", "mode_send"}

\* C21: no members lock across writes.  A task that is writing a channel
\* message or a broadcast to the sockets of the members holds no guard of a
\* channel's member map.
C21_NoMembersLockWhileSending ==
    \A t \in Conns :
        (pc[t] \in FanOutSendLabels /\ loc[t].pending # {}) =>
            \A h \in Holds(t) : h.k # "members"

\* ------------------------------------------------- the pure functions
\* No connection is open while a function is applied to its argument.
Quiet ==
    /\ pc = [c \in Conns |-> "closed"]
    /\ status = [c \in Conns |-> Unregistered(None, None, None)]
    /\ clients = {}
    /\ users = Empty
    /\ channels = Empty
    /\ chan = Empty
    /\ cchannels = [c \in Conns |-> Empty]
    /\ outbox = [c \in Conns |-> <<>>]
    /\ sockOk = [c \in Conns |-> TRUE]
    /\ loc = [c \in Conns |-> LocIdle]
    /\ cmds = 0
    /\ nextId = 1
    /\ panicked = {}
    /\ sink = [c \in Conns |-> MessageSink_new]
    /\ completed = [c \in Conns |-> <<>>]

sessionvars == <<pc, status, clients, users, channels, chan, cchannels, outbox,
                 sockOk, loc, cmds, nextId, panicked, sink, completed>>

\* ------------------------------------------------- the reader and the parser
MaxBodyLen == 4
BodyChars == {" ", ":", "@", "a", "=", ";", "\r"}
Bodies == UNION {[1..n -> BodyChars] : n \in 0..MaxBodyLen}
\* How the line ends: LF, CR LF, or the peer closed before sending either.
Terminators == {<<"\n">>, <<"\r", "\n">>, <<>>}
\* What the peer sent after the line.
Tails == {<<>>, <<"a">>, <<"a", "\n">>}

\* The bytes a peer sends before it closes its end.
InitParse ==
    /\ Quiet
    /\ \E b \in Bodies : \E t \in Terminators : \E r \in Tails :
          input = [fn |-> "poll_next", io |-> b \o t \o r]
    /\ result = Unused

\* MessageStream::poll_next: read_line appends the bytes up to and including
\* the next LF, or up to the end of the stream, and returns their number; the
\* line goes to Message::new unless nothing was read.
PollNext ==
    /\ input.fn = "poll_next"
    /\ result.fn \notin {"panic", "end"}
    /\ LET io == input.io
           lf == find(io, "\n")
           n == IF lf # 0 THEN lf ELSE Len(io)
           msg_line == SubSeq(io, 1, n)
       IN /\ input' = [input EXCEPT !.io = SubSeq(io, n + 1, Len(io))]
          /\ result' = IF n = 0 THEN [fn |-> "end"]
                       ELSE IF consume_tags_assert(msg_line)
                       THEN [fn |-> "poll_next", line |-> msg_line,
                             msg |-> Message_new(msg_line)]
                       ELSE [fn |-> "panic", line |-> msg_line]
    /\ UNCHANGED sessionvars

\* The message goes back to a line ...
ToLine ==
    /\ result.fn = "poll_next"
    /\ result' = [fn |-> "to_line", line |-> result.line, msg |-> result.msg,
                  out |-> to_line(result.msg)]
    /\ UNCHANGED input
    /\ UNCHANGED sessionvars

\* ... and the line to a message again.
Reparse ==
    /\ result.fn = "to_line"
    /\ result' = IF consume_tags_assert(result.out)
                 THEN [fn |-> "new", line |-> result.line, msg |-> result.msg,
                       out |-> result.out, again |-> Message_new(result.out)]
                 ELSE [fn |-> "panic", line |-> result.out]
    /\ UNCHANGED input
    /\ UNCHANGED sessionvars

NextParse == PollNext \/ ToLine \/ Reparse

SpecParse == InitParse /\ [][NextParse]_vars

\* C22: the parser is total. Every line the reader stream hands to
\* Message::new, the last line of a stream that ends without a newline
\* included, yields a Message and never a panic.
C22_ParserTotal == result.fn # "panic"

\* The parts of a line without its terminator, as the words between single
\* spaces: an optional tags word, an optional source word, the command, the
\* parameters; `marker` is the first word after the command that opens with a
\* colon (0 when there is none), and `last` the parameter the line ends with.
LineParts(body) ==
    LET words == split(body, " ")
        starts(i, ch) == i <= Len(words) /\ words[i] # <<>> /\ words[i][1] = ch
        afterTags == IF starts(1, "@") THEN 2 ELSE 1
        command == IF starts(afterTags, ":") THEN afterTags + 1 ELSE afterTags
        marker == IF \E i \in (command + 1)..Len(words) : starts(i, ":")
                  THEN CHOOSE i \in (command + 1)..Len(words) :
                          starts(i, ":") /\ \A j \in (command + 1)..(i - 1) : ~starts(j, ":")
                  ELSE 0
        plain == IF marker = 0 THEN Len(words) ELSE marker - 1
    IN [words |-> words, command |-> command, marker |-> marker, plain |-> plain,
        last |-> IF marker # 0
                 THEN join(<<Tail(words[marker])>> \o SubSeq(words, marker + 1, Len(words)),
                           <<" ">>)
                 ELSE IF Len(words) > command THEN words[Len(words)]
                 ELSE <<"a">>]

\* One space and nothing else separates the parts; CR LF ends the line.
SingleSpaced(line) ==
    /\ ends_with(line, <<"\r", "\n">>)
    /\ LET body == SubSeq(line, 1, Len(line) - 2)
           p == LineParts(body)
       IN body = <<>>
          \/ \A i \in 1..p.plain : p.words[i] # <<>> /\ p.words[i][1] \notin WhiteSpace

\* The last parameter cannot be written without a colon in front of it.
NeedsColon(param) == param = <<>> \/ contains(param, " ") \/ param[1] = ":"

\* A line in normal form, as the statement words it: a colon opens the last
\* parameter exactly where the parameter needs one.
NormalForm(line) ==
    /\ SingleSpaced(line)
    /\ LET p == LineParts(SubSeq(line, 1, Len(line) - 2))
       IN p.marker # 0 => NeedsColon(p.last)

\* The normal form to_line writes: a colon also opens a last parameter that
\* holds a colon anywhere.
WrittenForm(line) ==
    /\ SingleSpaced(line)
    /\ LET p == LineParts(SubSeq(line, 1, Len(line) - 2))
       IN (p.marker # 0) <=> (NeedsColon(p.last) \/ contains(p.last, ":"))

MAX_LENGTH == 512

\* The loop of split_trailing_args from the i-th item on.
RECURSIVE split_trailing_loop(_, _, _, _, _, _, _)
split_trailing_loop(base_msg, params, i, separator, max_param_len, next_trailing, msgs) ==
    LET with(trailing) == [base_msg EXCEPT !.params = Append(@, trailing)]
    IN IF i > Len(params)
       THEN IF next_trailing # <<>> THEN Append(msgs, with(next_trailing)) ELSE msgs
       ELSE LET param == params[i]
                param_len == Len(param) + Len(separator)
                full == next_trailing # <<>>
                        /\ Len(next_trailing) + param_len >= max_param_len
                kept == IF full THEN <<>> ELSE next_trailing
            IN split_trailing_loop(base_msg, params, i + 1, separator, max_param_len,
                   kept \o param \o (IF i < Len(params) THEN separator ELSE <<>>),
                   IF full THEN Append(msgs, with(next_trailing)) ELSE msgs)

\* Message::split_trailing_args; the inputs keep base_len below MAX_LENGTH, so
\* the subtraction does not wrap.
split_trailing_args(base_msg, params, separator) ==
    LET base_len == Len(to_line(base_msg))
        max_param_len == MAX_LENGTH - base_len
    IN split_trailing_loop(base_msg, params, 1, separator, max_param_len, <<>>, <<>>)

\* The base of the RPL_NAMREPLY that Channel::get_names_msgs splits:
\* ":s 353 al = #a".
NamesBase ==
    [tags |-> <<>>, source |-> Some(<<"s">>), command |-> <<"3", "5", "3">>,
     params |-> <<<<"a", "l">>, <<"=">>, <<"#", "a">>>>]

\* Items are runs of one letter; their lengths are near the half and the whole
\* of what fits after the base.
MaxItems == 3
ItemLens == {1, 245, 246, 247, 248, 495}
Separators == {<<" ">>, <<",">>}
Item(n) == [i \in 1..n |-> "a"]

InitSplit ==
    /\ Quiet
    /\ \E n \in 1..MaxItems : \E lens \in [1..n -> ItemLens] : \E sep \in Separators :
          input = [fn |-> "split_trailing_args", base_msg |-> NamesBase,
                   params |-> [i \in 1..n |-> Item(lens[i])], separator |-> sep]
    /\ result = Unused

SplitTrailingArgs ==
    /\ input.fn = "split_trailing_args"
    /\ result = Unused
    /\ result' = [fn |-> "split_trailing_args",
                  msgs |-> split_trailing_args(input.base_msg, input.params, input.separator)]
    /\ UNCHANGED input
    /\ UNCHANGED sessionvars

NextSplit == SplitTrailingArgs

SpecSplit == InitSplit /\ [][NextSplit]_vars

\* The base with any single item as its last parameter fits in MAX_LENGTH.
EachItemFits ==
    \A i \in 1..Len(input.params) :
        Len(to_line([input.base_msg EXCEPT !.params = Append(@, input.params[i])])) <= MAX_LENGTH

\* C24: no split message exceeds the maximum. When the base with any single
\* item fits in 512 bytes, every message split_trailing_args returns
\* serialises, CR LF included, to at most 512 bytes.
C24_SplitFits ==
    (result.fn = "split_trailing_args" /\ EachItemFits) =>
        \A k \in 1..Len(result.msgs) : Len(to_line(result.msgs[k])) <= MAX_LENGTH

\* ------------------------------------------------- modestrings of a user
\* A mode record is a function from its fields to BOOLEAN; get_mode_bool
\* gives the field of a mode byte, None for a byte without one.
ModeBytes == {"+", "-", "i", "w", "B", "x"}

UserMode_default == [invisible |-> TRUE, see_wallops |-> FALSE, is_bot |-> FALSE]

UserMode_get_mode_bool ==
    [mode \in ModeBytes |->
        CASE mode = "i" -> Some("invisible")
          [] mode = "w" -> Some("see_wallops")
          [] mode = "B" -> Some("is_bot")
          [] OTHER -> NoneOpt]

\* The echo gets the sign on every letter.
append_mode_AlwaysSigned(modestring, mode, positive_changed, positive) ==
    modestring \o <<IF positive THEN "+" ELSE "-", mode>>

append_mode(modestring, mode, positive_changed, positive) ==
    (IF positive_changed /\ positive THEN modestring \o <<"+">>
     ELSE IF positive_changed /\ ~positive THEN modestring \o <<"-">>
     ELSE modestring) \o <<mode>>

\* BaseMode::apply_mode on st = [self, last_positive_applied, modestring];
\* is_err tells the byte has no flag.
apply_mode(st, mode, positive) ==
    LET target == UserMode_get_mode_bool[mode]
    IN IF target = NoneOpt THEN [st EXCEPT !.is_err = TRUE]
       ELSE IF st.self[target[1]] # positive
       THEN [self |-> [st.self EXCEPT ![target[1]] = positive],
             modestring |-> append_mode(st.modestring, mode,
                                st.modestring = <<>> \/ positive # st.last_positive_applied,
                                positive),
             last_positive_applied |-> positive,
             is_err |-> FALSE]
       ELSE [st EXCEPT !.is_err = FALSE]

\* The loop of BaseMode::apply_modestring over the bytes of the modestring.
RECURSIVE apply_modestring_loop(_, _, _, _, _)
apply_modestring_loop(bytes, st, positive, had_unknown_mode, unknown_mode) ==
    IF bytes = <<>>
    THEN [self |-> st.self, applied_modestring |-> st.modestring,
          is_err |-> had_unknown_mode, unknown_mode |-> unknown_mode]
    ELSE LET c == Head(bytes)
         IN IF c = "+" THEN apply_modestring_loop(Tail(bytes), st, TRUE,
                                                  had_unknown_mode, unknown_mode)
            ELSE IF c = "-" THEN apply_modestring_loop(Tail(bytes), st, FALSE,
                                                       had_unknown_mode, unknown_mode)
            ELSE LET r == apply_mode(st, c, positive)
                 IN apply_modestring_loop(Tail(bytes), r, positive,
                                          had_unknown_mode \/ r.is_err,
                                          IF r.is_err THEN c ELSE unknown_mode)

\* The call forgets the record it is applied to.
UserMode_apply_modestring_FromDefault(self, modestring) ==
    apply_modestring_loop(modestring,
        [self |-> UserMode_default, last_positive_applied |-> TRUE, modestring |-> <<>>,
         is_err |-> FALSE],
        TRUE, FALSE, "NUL")

\* BaseMode::apply_modestring on a UserMode: the record after the call, the
\* applied modestring, and Err with the last unknown byte or Ok.
UserMode_apply_modestring(self, modestring) ==
    apply_modestring_loop(modestring,
        [self |-> self, last_positive_applied |-> TRUE, modestring |-> <<>>,
         is_err |-> FALSE],
        TRUE, FALSE, "NUL")

UserModes == [{"invisible", "see_wallops", "is_bot"} -> BOOLEAN]

MaxModeLen == 4
MaxHalfLen == 2
ModeStringsUpTo(n) == UNION {[1..k -> ModeBytes] : k \in 0..n}

\* Either two modestrings to apply one after the other and at once, or one
\* modestring to apply and to echo.
InitModeFn ==
    /\ Quiet
    /\ \E self \in UserModes :
          \/ \E s \in ModeStringsUpTo(MaxModeLen) :
                input = [fn |-> "apply_modestring", self |-> self, modestring |-> s]
          \/ \E s1 \in ModeStringsUpTo(MaxHalfLen) : \E s2 \in ModeStringsUpTo(MaxHalfLen) :
                input = [fn |-> "compose", self |-> self, first |-> s1, second |-> s2]
    /\ result = Unused

\* The first modestring, then the second on the record the first left.
ApplyInTurn ==
    /\ input.fn = "compose"
    /\ result = Unused
    /\ LET r1 == UserMode_apply_modestring(input.self, input.first)
           r2 == UserMode_apply_modestring(r1.self, input.second)
       IN result' = [fn |-> "in_turn", self |-> r2.self]
    /\ UNCHANGED input
    /\ UNCHANGED sessionvars

\* The two modestrings as one.
ApplyAtOnce ==
    /\ input.fn = "compose"
    /\ result.fn = "in_turn"
    /\ LET r == UserMode_apply_modestring(input.self, input.first \o input.second)
       IN result' = [fn |-> "composed", in_turn |-> result.self, at_once |-> r.self]
    /\ UNCHANGED input
    /\ UNCHANGED sessionvars

ApplyModestring ==
    /\ input.fn = "apply_modestring"
    /\ result = Unused
    /\ result' = [fn |-> "applied",
                  ret |-> UserMode_apply_modestring(input.self, input.modestring)]
    /\ UNCHANGED input
    /\ UNCHANGED sessionvars

\* The applied modestring goes to the record the call started from.
ApplyEcho ==
    /\ input.fn = "apply_modestring"
    /\ result.fn = "applied"
    /\ result' = [fn |-> "echoed", ret |-> result.ret,
                  again |-> UserMode_apply_modestring(input.self,
                                                      result.ret.applied_modestring)]
    /\ UNCHANGED input
    /\ UNCHANGED sessionvars

NextModeFn == ApplyInTurn \/ ApplyAtOnce \/ ApplyModestring \/ ApplyEcho

SpecModeFn == InitModeFn /\ [][NextModeFn]_vars

\* C25 as stated: applying S1 and then S2 leaves the flags that applying
\* S1 followed by S2 in one call leaves.
C25_ModeComposes ==
    result.fn = "composed" => result.in_turn = result.at_once

\* The sign in force after the bytes of a modestring: that of its last sign
\* byte, plus when it has none.
RECURSIVE SignAfter(_)
SignAfter(s) ==
    IF s = <<>> THEN "+"
    ELSE IF s[Len(s)] \in {"+", "-"} THEN s[Len(s)]
    ELSE SignAfter(SubSeq(s, 1, Len(s) - 1))

\* C25: applying S1 and then S2 leaves the flags that applying S1 followed
\* by S2 in one call leaves, when S2 opens with a sign or S1 ends under the
\* plus sign.
C25_ModeComposesSigned ==
    (/\ result.fn = "composed"
     /\ \/ input.second = <<>>
        \/ input.second[1] \in {"+", "-"}
        \/ SignAfter(input.first) = "+") =>
        result.in_turn = result.at_once

\* Both halves changed a flag, the first under the minus sign, and the second
\* opens with its own sign.
C25_Witness ==
    /\ result.fn = "composed"
    /\ SignAfter(input.first) = "-"
    /\ input.second # <<>> /\ input.second[1] = "+"
    /\ result.at_once # input.self
    /\ UserMode_apply_modestring(input.self, input.first).self # input.self
    /\ result.at_once # UserMode_apply_modestring(input.self, input.first).self

\* What the statement of the echo says, position by position of the
\* modestring s applied to the record self.
KnownLetter(b) == b \notin {"+", "-"} /\ UserMode_get_mode_bool[b] # NoneOpt
UnknownLetter(b) == b \notin {"+", "-"} /\ UserMode_get_mode_bool[b] = NoneOpt
SignAt(s, p) == SignAfter(SubSeq(s, 1, p - 1))
Maximum(S) == CHOOSE x \in S : \A y \in S : y <= x

\* The flag of the letter at p just before p is processed.
ValueBefore(self, s, p) ==
    LET earlier == {q \in 1..(p - 1) : s[q] = s[p]}
    IN IF earlier = {} THEN self[UserMode_get_mode_bool[s[p]][1]]
       ELSE SignAt(s, Maximum(earlier)) = "+"

ChangesAt(self, s, p) ==
    KnownLetter(s[p]) /\ ValueBefore(self, s, p) # (SignAt(s, p) = "+")

\* The letters that changed their flag from position p on, each with its sign
\* when it is the first (prev = 0) or its sign is not that of the letter
\* echoed before it, at position prev.
RECURSIVE EchoFrom(_, _, _, _)
EchoFrom(self, s, p, prev) ==
    IF p > Len(s) THEN <<>>
    ELSE IF ChangesAt(self, s, p)
    THEN (IF prev = 0 \/ SignAt(s, p) # SignAt(s, prev) THEN <<SignAt(s, p)>> ELSE <<>>)
         \o <<s[p]>> \o EchoFrom(self, s, p + 1, p)
    ELSE EchoFrom(self, s, p + 1, prev)

\* Every known letter of s has been applied: a flag has the sign of the last
\* occurrence of its letter.
FinalFlags(self, s) ==
    [f \in DOMAIN self |->
        LET at == {p \in 1..Len(s) : KnownLetter(s[p]) /\ UserMode_get_mode_bool[s[p]][1] = f}
        IN IF at = {} THEN self[f] ELSE SignAt(s, Maximum(at)) = "+"]

\* C26: the echo of apply_modestring lists, in input order, exactly the
\* known letters whose flag changed when they were processed, with a sign
\* before the first of them and wherever the sign differs from that of the
\* letter echoed before; an unknown letter does not stop the letters after it
\* and is reported, with the echo, at the end; the echo applied to the
\* original record gives the same final record.
C26_Echo ==
    /\ result.fn \in {"applied", "echoed"} =>
          /\ result.ret.applied_modestring = EchoFrom(input.self, input.modestring, 1, 0)
          /\ result.ret.self = FinalFlags(input.self, input.modestring)
          /\ result.ret.is_err <=>
                \E p \in 1..Len(input.modestring) : UnknownLetter(input.modestring[p])
          /\ result.ret.is_err =>
                \E p \in 1..Len(input.modestring) :
                    /\ UnknownLetter(input.modestring[p])
                    /\ result.ret.unknown_mode = input.modestring[p]
    /\ result.fn = "echoed" => result.again.self = result.ret.self

\* An unknown letter stood before a letter that changed its flag, the echo
\* has two letters under one sign, and it has been applied again.
C26_Witness ==
    /\ result.fn = "echoed"
    /\ result.ret.is_err
    /\ Len(result.ret.applied_modestring) = 3
    /\ \E p, q \in 1..Len(input.modestring) :
          p < q /\ UnknownLetter(input.modestring[p]) /\ ChangesAt(input.self, input.modestring, q)

\* ------------------------------------------------- nicknames and usernames
MaxArgLen == 4
NickArgChars == {"c", "C", "9", "-", "#", "[", Backtick, EAcute}
UserArgChars == {"b", "o", "@", " ", Nul, "\n", EAcute}
NameLengths == {2, 3}
ArgsOver(chars) == UNION {[1..n -> chars] : n \in 0..MaxArgLen}

InitIdent ==
    /\ Quiet
    /\ \E max_len \in NameLengths :
          \/ \E nick \in ArgsOver(NickArgChars) :
                input = [fn |-> "is_valid_nick", max_len |-> max_len, nick |-> nick]
          \/ \E username \in ArgsOver(UserArgChars) :
                input = [fn |-> "make_valid_username", max_len |-> max_len,
                         username |-> username]
    /\ result = Unused

IsValidNick ==
    /\ input.fn = "is_valid_nick"
    /\ result = Unused
    /\ result' = [fn |-> "is_valid_nick", ret |-> is_valid_nick_chars(input.max_len, input.nick)]
    /\ UNCHANGED input
    /\ UNCHANGED sessionvars

MakeValidUsername ==
    /\ input.fn = "make_valid_username"
    /\ result = Unused
    /\ LET r == make_valid_username_chars(input.max_len, input.username)
       IN result' = [fn |-> "make_valid_username", panic |-> r.panic, ret |-> r.ret]
    /\ UNCHANGED input
    /\ UNCHANGED sessionvars

NextIdent == IsValidNick \/ MakeValidUsername

SpecIdent == InitIdent /\ [][NextIdent]_vars

\* The characters of the statement.
StatedLetters == {"c", "C"}
StatedDigits == {"9"}
StatedSpecials == {"[", "\\", "]", "^", "_", Backtick, "{", "|", "}"}

\* C27: is_valid_nick(max, s) is true exactly when s is not empty, is at
\* most max bytes long, starts with a letter or a special and goes on with
\* letters, digits, specials and '-'; so a nickname of max letters is
\* accepted, one of max+1 is not, and none that starts with a digit, '-' or
\* '#' is.
C27_NickRule ==
    result.fn = "is_valid_nick" =>
        LET s == input.nick
            max == input.max_len
        IN /\ result.ret <=>
                 /\ Len(s) > 0
                 /\ ByteLen(s) <= max
                 /\ s[1] \in StatedLetters \cup StatedSpecials
                 /\ \A i \in 2..Len(s) :
                       s[i] \in StatedLetters \cup StatedDigits \cup StatedSpecials \cup {"-"}
           /\ (s = [i \in 1..max |-> "c"]) => result.ret
           /\ (s = [i \in 1..(max + 1) |-> "c"]) => ~result.ret
           /\ (s # <<>> /\ s[1] \in {"9", "-", "#"}) => ~result.ret

\* A nickname of max characters with a special, a digit and '-' in it was
\* accepted.
C27_Witness ==
    /\ result.fn = "is_valid_nick"
    /\ result.ret
    /\ Len(input.nick) = input.max_len
    /\ \E i, j \in 1..Len(input.nick) : input.nick[i] = Backtick /\ input.nick[j] \in {"9", "-"}

\* The longest prefix of the first max-1 bytes of s without a bad character.
RECURSIVE FirstBytes(_, _)
FirstBytes(s, n) ==
    IF s = <<>> \/ len_utf8(Head(s)) > n THEN <<>>
    ELSE <<Head(s)>> \o FirstBytes(Tail(s), n - len_utf8(Head(s)))

RECURSIVE CleanPrefix(_)
CleanPrefix(s) ==
    IF s = <<>> \/ Head(s) \in {"@", Nul, "\r", "\n", " "} THEN <<>>
    ELSE <<Head(s)>> \o CleanPrefix(Tail(s))

\* C28: make_valid_username(max, s) returns '~' and the longest prefix of
\* the first max-1 bytes of s without '@', NUL, CR, LF and space, None
\* exactly when that prefix is empty; the result is never longer than max and
\* is '~' and s exactly when s is not empty, shorter than max and without
\* those characters.
C28_UsernameRule ==
    result.fn = "make_valid_username" =>
        LET s == input.username
            max == input.max_len
            prefix == CleanPrefix(FirstBytes(s, max - 1))
        IN /\ ~result.panic
           /\ result.ret = (IF prefix = <<>> THEN NoneOpt ELSE Some(<<"~">> \o prefix))
           /\ result.ret # NoneOpt => ByteLen(result.ret[1]) <= max
           /\ (result.ret = Some(<<"~">> \o s)) <=>
                 (s # <<>> /\ ByteLen(s) < max /\ CleanPrefix(s) = s)

\* ------------------------------------------------- the command table
\* Two loops run over COMMANDS_LIST: the one that fills the COMMANDS map,
\* and the one of tests::no_command_duplicates, which puts the names and
\* the handlers into a set each and asserts that each was new.
InitTable ==
    /\ Quiet
    /\ input = [fn |-> "COMMANDS_LIST"]
    /\ result = [fn |-> "COMMANDS_LIST", inserted |-> 0, m |-> Empty,
                 tested |-> 0, names |-> {}, handlers |-> {}, failed |-> FALSE]

\* m.insert(cmd.name, cmd): an entry of the same name is replaced.
MapInsert ==
    /\ input.fn = "COMMANDS_LIST"
    /\ result.inserted < Len(COMMANDS_LIST)
    /\ LET cmd == COMMANDS_LIST[result.inserted + 1]
       IN result' = [result EXCEPT
              !.inserted = @ + 1,
              !.m = [k \in DOMAIN @ \cup {cmd.name} |-> IF k = cmd.name THEN cmd ELSE @[k]]]
    /\ UNCHANGED input
    /\ UNCHANGED sessionvars

\* assert!(names.insert(cmd.name)); assert!(handlers.insert(cmd.handler)).
TestInsert ==
    /\ input.fn = "COMMANDS_LIST"
    /\ ~result.failed
    /\ result.tested < Len(COMMANDS_LIST)
    /\ LET cmd == COMMANDS_LIST[result.tested + 1]
       IN result' = [result EXCEPT
              !.tested = @ + 1,
              !.names = @ \cup {cmd.name},
              !.handlers = IF cmd.name \in result.names THEN @ ELSE @ \cup {cmd.handler},
              !.failed = cmd.name \in result.names \/ cmd.handler \in result.handlers]
    /\ UNCHANGED input
    /\ UNCHANGED sessionvars

NextTable == MapInsert \/ TestInsert

SpecTable == InitTable /\ [][NextTable]_vars

\* C29: the command table has no duplicates. No verb appears twice in
\* COMMANDS_LIST and no two verbs share a handler: neither assertion of the
\* test fails, and the map has an entry for every line of the table.
C29_NoDuplicates ==
    /\ ~result.failed
    /\ \A i, j \in 1..Len(COMMANDS_LIST) :
          i # j => /\ COMMANDS_LIST[i].name # COMMANDS_LIST[j].name
                   /\ COMMANDS_LIST[i].handler # COMMANDS_LIST[j].handler
    /\ Cardinality(DOMAIN result.m) = result.inserted
    /\ Cardinality(result.names) = result.tested
    /\ Cardinality(result.handlers) = result.tested

\* Both loops have gone through the whole table.
C29_Witness ==
    /\ result.fn = "COMMANDS_LIST"
    /\ result.inserted = Len(COMMANDS_LIST)
    /\ result.tested = Len(COMMANDS_LIST)
    /\ result.tested >= 12

\* ------------------------------------------------------------- NOTICE
\* NOTICE is in the namespace Any: handle_notice_or_privmsg runs with
\* is_notice for a connection in any state, a new one without nick or
\* username included.  With is_notice every error is a silent Ok.
NoticeTargets == {"#a", "bo"}

\* Client::get_extended_prefix is Some only with a nick and a username.
has_extended_prefix(c) == status[c].nick # None /\ status[c].username # None

\* An expect or unwrap fails: the task unwinds and drops its Client.
Panic(c) ==
    /\ panicked' = panicked \cup {c}
    /\ Finish(c, FALSE)

\* The parameters of a NOTICE: none, the target alone, target and text.
NoticeParams(text) ==
    {<<>>} \cup {<<n>> : n \in NoticeTargets} \cup {<<n, text>> : n \in NoticeTargets}

\* handle_notice_or_privmsg up to the lock of by_channel; a NOTICE without a
\* target or without a text returns Ok(()) at once.
RecvNotice(c) ==
    /\ Recv(c, "NOTICE")
    /\ is_command_available("NOTICE", c)
    /\ \E params \in NoticeParams(NumStr(cmds)) :
          IF Len(params) < 2
          THEN UNCHANGED <<pc, loc>>
          ELSE /\ loc' = [loc EXCEPT ![c].name = params[1], ![c].arg = params[2]]
               /\ Goto(c, "msg_lock_channels")
    /\ UNCHANGED <<status, clients, users, channels, chan, cchannels, outbox, sockOk,
                   nextId, panicked>>
    /\ UNCHANGED sinkvars

\* The look-up of the target in by_channel; without a channel of that name,
\* get_nick().expect("Message sent by user without a nick!"), and for a
\* message to oneself get_extended_prefix().expect(..).
NoticeLockChannels(c) ==
    /\ pc[c] = "msg_lock_channels"
    /\ CanAcquire(c)
    /\ LET key == to_ascii_uppercase(loc[c].name)
       IN IF key \in DOMAIN channels
          THEN /\ loc' = [loc EXCEPT ![c].ch = channels[key]]
               /\ Goto(c, "msg_read_members")
               /\ UNCHANGED panicked
          ELSE IF get_nick(c) = None
          THEN Panic(c)
          ELSE IF key = to_ascii_uppercase(get_nick(c))
          THEN IF has_extended_prefix(c)
               THEN Finish(c, TRUE) /\ UNCHANGED panicked
               ELSE Panic(c)
          ELSE Goto(c, "msg_no_channel") /\ UNCHANGED <<loc, panicked>>
    /\ UNCHANGED <<status, clients, users, channels, chan, cchannels, outbox, sockOk, cmds,
                   nextId>>
    /\ UNCHANGED sinkvars

\* The channel's read lock, the hook, and the message for Channel::send with
\* get_extended_prefix().expect("Message sent by user without a prefix!").
NoticeReadMembers(c) ==
    /\ pc[c] = "msg_read_members"
    /\ CanAcquire(c)
    /\ \E hook \in HookOutcomes :
         IF hook = "true"
         THEN IF has_extended_prefix(c)
              THEN /\ loc' = [loc EXCEPT
                         ![c].pending = {u \in chan[loc[c].ch].users : Upgradable(u)},
                         ![c].msg = UserMsg(c, "NOTICE", <<chan[loc[c].ch].name, loc[c].arg>>),
                         ![c].res = "ok"]
                   /\ Goto(c, "msg_send")
                   /\ UNCHANGED panicked
              ELSE Panic(c)
         ELSE Finish(c, TRUE) /\ UNCHANGED panicked
    /\ UNCHANGED <<status, clients, users, channels, chan, cchannels, outbox, sockOk, cmds,
                   nextId>>
    /\ UNCHANGED sinkvars

\* The look-up of the target in by_nick, the target's read lock, the
\* sender's prefix, the send.
NoticeNoChannel(c) ==
    /\ pc[c] = "msg_no_channel"
    /\ CanAcquire(c)
    /\ LET key == to_ascii_uppercase(loc[c].name)
       IN IF key \notin DOMAIN users \/ ~Upgradable(users[key])
          THEN Finish(c, TRUE) /\ UNCHANGED <<outbox, panicked>>
          ELSE LET to == users[key]
               IN /\ CanReadClient(to)
                  /\ IF ~has_extended_prefix(c)
                     THEN Panic(c) /\ UNCHANGED outbox
                     ELSE IF sockOk[to]
                     THEN /\ Deliver(to, <<UserMsg(c, "NOTICE", <<get_nick(to), loc[c].arg>>)>>)
                          /\ Finish(c, TRUE)
                          /\ UNCHANGED panicked
                     ELSE Finish(c, FALSE) /\ UNCHANGED <<outbox, panicked>>
    /\ UNCHANGED <<status, clients, users, channels, chan, cchannels, sockOk, cmds,
                   nextId>>
    /\ UNCHANGED sinkvars

\* Some connections are registered and in #a; the others are still to come.
InitNotice ==
    \E R \in SUBSET Conns :
        /\ pc = [c \in Conns |-> IF c \in R THEN "idle" ELSE "closed"]
        /\ status = [c \in Conns |-> IF c \in R THEN Normal(NickOf[c], "~u", "real")
                                     ELSE Unregistered(None, None, None)]
        /\ clients = R
        /\ users = [k \in {to_ascii_uppercase(NickOf[c]) : c \in R} |->
                      CHOOSE c \in R : to_ascii_uppercase(NickOf[c]) = k]
        /\ channels = IF R = {} THEN Empty ELSE ("#A" :> 1)
        /\ chan = IF R = {} THEN Empty ELSE (1 :> [Channel_new("#a") EXCEPT !.users = R])
        /\ cchannels = [c \in Conns |-> IF c \in R THEN ("#A" :> 1) ELSE Empty]
        /\ outbox = [c \in Conns |-> <<>>]
        /\ sockOk = [c \in Conns |-> TRUE]
        /\ loc = [c \in Conns |-> LocIdle]
        /\ cmds = 0
        /\ nextId = 2
        /\ panicked = {}
        /\ SinkInit

\* Connections come, take and change nicks, send notices, and go.
NextNotice ==
    \E c \in Conns :
        \/ Connect(c) \/ Eof(c) \/ SockBreak(c)
        \/ RecvNick(c) \/ NickReject(c) \/ NickCheck(c) \/ NickRekey(c)
        \/ RecvNotice(c) \/ NoticeLockChannels(c) \/ NoticeReadMembers(c)
        \/ NoticeNoChannel(c) \/ MsgSend(c)
        \/ BcChan(c) \/ BcSend(c)
        \/ DropStart(c) \/ DropUsers(c) \/ DropClients(c)

SpecNotice == InitNotice /\ [][NextNotice]_vars

\* C30: no panic is reachable from the wire. No sequence of messages makes
\* an assertion, an expect or an unwrap of the server fail: not the
\* expectations of the teardown, not the unwrap of the old by_nick entry of a
\* rename, not the expectations on the nick and the prefix of a sender.
C30_NoPanic == panicked = {}

\* ------------------------------------------------ renames among members
\* Registered members of #a and #b that rename, lose their socket or leave.
NextNick ==
    \E c \in Conns :
        \/ Eof(c) \/ SockBreak(c)
        \/ RecvNick(c) \/ NickReject(c) \/ NickCheck(c) \/ NickRekey(c)
        \/ BcChan(c) \/ BcSend(c)
        \/ DropStart(c) \/ DropUsers(c) \/ DropClients(c)

SpecNick == InitQuit /\ [][NextNick]_vars

Occurrences(s, m) == Cardinality({i \in 1..Len(s) : s[i] = m})

\* The step of handle_nick that re-keys by_nick for c.
Rekeys(c) == pc[c] = "nick_rekey" /\ pc'[c] # "nick_rekey"

\* The step that ends the broadcast of c's NICK with Ok.
NickDone(c) == pc[c] = "bc_chan" /\ loc[c].ret = "nick" /\ pc'[c] = "idle"

\* C31: a successful NICK of a registered connection.  The re-keying step
\* leaves by_nick with the new uppercased key mapped to this connection,
\* without the old key and with as many entries as before; and when the
\* broadcast is over the connection itself and every live peer that shares a
\* channel with it hold exactly one NICK message whose source is the prefix
\* with the old nick and whose parameter is the new nick.
C31_NickAnnounced ==
    [][\A c \in Conns :
        /\ Rekeys(c) =>
            /\ c \notin panicked'
            /\ to_ascii_uppercase(status[c].nick) \in DOMAIN users'
            /\ users'[to_ascii_uppercase(status[c].nick)] = c
            /\ to_ascii_uppercase(loc[c].arg) \notin DOMAIN users'
            /\ Cardinality(DOMAIN users') = Cardinality(DOMAIN users)
        /\ NickDone(c) =>
            /\ loc[c].msg.cmd = "NICK"
            /\ loc[c].msg.src[1] = loc[c].arg
            /\ loc[c].msg.params = <<status[c].nick>>
            /\ Occurrences(outbox'[c], loc[c].msg) = 1
            /\ \A u \in Conns \ {c} :
                 LiveSharer(c, u) => Occurrences(outbox'[u], loc[c].msg) = 1]_vars

\* The step of handle_nick that consults by_nick for c and finds the
\* requested nick there.
FindsNickTaken(c) ==
    /\ pc[c] = "nick_check" /\ pc'[c] # "nick_check"
    /\ to_ascii_uppercase(loc[c].name) \in DOMAIN users

\* C32: a NICK that names a nick present in by_nick under case folding is
\* answered with ERR_NICKNAMEIN_USE: the look-up step appends one 433 reply
\* to the stream of the sender whenever its socket accepts writes, whether
\* the sender is registered, has stashed a nick or has no nick yet.
C32_NickInUse ==
    [][\A c \in Conns :
        (FindsNickTaken(c) /\ sockOk[c]) =>
            /\ Len(outbox'[c]) = Len(outbox[c]) + 1
            /\ outbox'[c][Len(outbox'[c])].cmd = "433"]_vars

\* The step of handle_part for a '#' name that c's own channel map does not
\* hold, taken while c's socket accepts writes.
PartsUnjoined(c) ==
    /\ pc[c] = "part_start" /\ pc'[c] # "part_start"
    /\ starts_with_hash(loc[c].name)
    /\ to_ascii_uppercase(loc[c].name) \notin DOMAIN cchannels[c]
    /\ sockOk[c]

UserWhenRegistered(c) ==
    /\ pc[c] = "user_start" /\ pc'[c] # "user_start"
    /\ status[c].st = "Normal"
    /\ sockOk[c]

\* C34: a USER from a registered connection is answered with
\* ERR_ALREADY_REGISTERED (462) whatever its parameters are; the username,
\* the realname and the registries stay as they are and the session goes on.
C34_UserWhenRegistered ==
    [][\A c \in Conns :
        UserWhenRegistered(c) =>
            /\ outbox' = [outbox EXCEPT ![c] =
                   Append(@, make_reply_msg(get_nick(c), "462", <<"You may not reregister">>))]
            /\ pc'[c] = "idle"
            /\ UNCHANGED <<status, clients, users>>]_vars

\* ------------------------------------------------- MODE with a nick target
\* The targets of the MODE requests that do not start with '#'; the requests
\* of the model carry no modestring, so every client.mode keeps its default.
UserModeTargets == {"al", "AL", "bo", "BO", "zed"}

UserMode_to_string(self) ==
    "+" \o (IF self.invisible THEN "i" ELSE "")
        \o (IF self.see_wallops THEN "w" ELSE "")
        \o (IF self.is_bot THEN "B" ELSE "")

\* handle_mode up to the await of users.read(): the write lock of the own
\* client, the target, and the comparison of the target with the own nick.
RecvUserMode(c) ==
    /\ Recv(c, "MODE")
    /\ status[c].st = "Normal"
    /\ \E t \in UserModeTargets :
          /\ loc' = [loc EXCEPT ![c].name = t]
          /\ Goto(c, IF t = get_nick(c) THEN "umode_self" ELSE "umode_users")
    /\ UNCHANGED <<status, clients, users, channels, chan, cchannels, outbox, sockOk,
                   nextId, panicked>>
    /\ UNCHANGED sinkvars

\* handle_user_mode without a modestring: RPL_UMODEIS with client.mode.
UserModeSelf(c) ==
    /\ pc[c] = "umode_self"
    /\ IF sockOk[c]
       THEN /\ Deliver(c, <<make_reply_msg(get_nick(c), "RplUModeIs",
                                           <<UserMode_to_string(UserMode_default)>>)>>)
            /\ Finish(c, TRUE)
       ELSE Finish(c, FALSE) /\ UNCHANGED outbox
    /\ UNCHANGED <<status, clients, users, channels, chan, cchannels, sockOk, cmds,
                   nextId, panicked>>
    /\ UNCHANGED sinkvars

\* The last two branches of handle_mode: by_nick is asked for the target as
\* the client wrote it.
UserModeLookup(c) ==
    /\ pc[c] = "umode_users"
    /\ CanAcquire(c)
    /\ IF loc[c].name \in DOMAIN users
       THEN command_error(c, "ErrUsersDontMatch", <<"Cant change mode for other users">>)
       ELSE command_error(c, "401", <<loc[c].name, "No such nick/channel">>)
    /\ UNCHANGED <<status, clients, users, channels, chan, cchannels, sockOk, cmds,
                   nextId, panicked>>
    /\ UNCHANGED sinkvars

NextUserMode ==
    \E c \in Conns :
        \/ Eof(c) \/ SockBreak(c)
        \/ RecvUserMode(c) \/ UserModeSelf(c) \/ UserModeLookup(c)
        \/ BcChan(c)
        \/ DropStart(c) \/ DropUsers(c) \/ DropClients(c)

SpecUserMode == InitChan /\ [][NextUserMode]_vars

\* The step that answers c's MODE for a target without '#', taken while c's
\* socket accepts writes.
AnswersUserMode(c) ==
    /\ pc[c] \in {"umode_self", "umode_users"} /\ pc'[c] = "idle"
    /\ sockOk[c]

NickOfAnother(c, t) ==
    /\ to_ascii_uppercase(t) \in DOMAIN users
    /\ users[to_ascii_uppercase(t)] # c

\* C35: a MODE whose target does not start with '#'.  The own nick is
\* treated as a user-mode request (here: the query, answered with
\* RPL_UMODEIS), the nick of another registered connection under ASCII case
\* folding is answered with ERR_USERSDONTMATCH, and a target no connection
\* is registered under with ERR_NO_SUCH_NICK.
C35_ModeTarget ==
    [][\A c \in Conns :
        AnswersUserMode(c) =>
            LET t == loc[c].name
                last == outbox'[c][Len(outbox'[c])]
            IN /\ Len(outbox'[c]) = Len(outbox[c]) + 1
               /\ t = get_nick(c) => last.cmd = "RplUModeIs"
               /\ NickOfAnother(c, t) => last.cmd = "ErrUsersDontMatch"
               /\ to_ascii_uppercase(t) \notin DOMAIN users => last.cmd = "401"]_vars

\* The steps of a NOTICE of c that meet a problem of the protocol: a missing
\* target or text, a target that is no channel and no nick of by_nick, the
\* own nick as target, a channel message the hook does not let through.
NoticeLacksParams(c) == pc[c] = "idle" /\ pc'[c] = "idle" /\ cmds' # cmds

NoticeToNobody(c) ==
    /\ pc[c] \in {"msg_lock_channels", "msg_no_channel"} /\ pc'[c] # pc[c]
    /\ to_ascii_uppercase(loc[c].name) \notin DOMAIN channels
    /\ to_ascii_uppercase(loc[c].name) \notin DOMAIN users

NoticeToSelf(c) ==
    /\ pc[c] = "msg_lock_channels" /\ pc'[c] # pc[c]
    /\ to_ascii_uppercase(loc[c].name) \notin DOMAIN channels
    /\ get_nick(c) # None
    /\ to_ascii_uppercase(loc[c].name) = to_ascii_uppercase(get_nick(c))

NoticeHookRefuses(c) == pc[c] = "msg_read_members" /\ pc'[c] \notin {pc[c], "msg_send"}

\* C36: a NOTICE never earns its sender a reply and never ends the sender's
\* session over a problem of the protocol.  In each of the four cases the
\* step sends nothing to anyone, changes no registry, membership or status,
\* and leaves the task in its handler or back in its read loop.
C36_NoticeSilent ==
    [][\A c \in Conns :
        (NoticeLacksParams(c) \/ NoticeToNobody(c) \/ NoticeToSelf(c) \/ NoticeHookRefuses(c)) =>
            /\ pc'[c] \in {"idle", "msg_no_channel"}
            /\ c \notin panicked'
            /\ UNCHANGED <<outbox, status, clients, users, channels, chan, cchannels>>]_vars

\* ------------------------------------------------- JOIN with a list of names
\* Chanlists of several names, with and without a name that is no channel.
JoinListsLong == {<<"#a", "#b", "#c">>, <<"a", "#b", "#a">>}

RecvJoinList(c) ==
    /\ Recv(c, "JOIN")
    /\ status[c].st = "Normal"
    /\ \E list \in JoinListsLong : loc' = [loc EXCEPT ![c].todo = list]
    /\ Goto(c, "join_next")
    /\ UNCHANGED <<status, clients, users, channels, chan, cchannels, outbox, sockOk,
                   nextId, panicked>>
    /\ UNCHANGED sinkvars

\* Registered connections that join lists of channels and leave channels on
\* a server whose chan_limit is ConfiguredChanLimit.
NextJoinList ==
    \E c \in Conns :
        \/ Eof(c) \/ SockBreak(c)
        \/ RecvJoinList(c) \/ JoinNextAt(c, ConfiguredChanLimit) \/ JoinLockChannels(c)
        \/ JoinReadMembers(c) \/ JoinWriteMembers(c) \/ JoinSend(c)
        \/ RecvPart(c) \/ PartStart(c) \/ PartReadMembers(c) \/ PartSend(c)
        \/ PartWriteMembers(c) \/ PartLockChannels(c)
        \/ BcChan(c) \/ BcSend(c)
        \/ DropStart(c) \/ DropUsers(c) \/ DropClients(c)

SpecJoinList == InitChan /\ [][NextJoinList]_vars

\* The channels whose member map holds c.
MemberOf(c) == {id \in DOMAIN chan : c \in chan[id].users}

\* The turn of the JOIN loop that finds c at the limit with a '#' name in
\* front, taken while c's socket accepts writes.
JoinsAtLimit(c) ==
    /\ pc[c] = "join_next" /\ loc[c].todo # <<>>
    /\ starts_with_hash(Head(loc[c].todo))
    /\ Cardinality(DOMAIN cchannels[c]) >= ConfiguredChanLimit
    /\ sockOk[c]
    /\ loc'[c] # loc[c]

\* C37: a connection is never joined to more than chan_limit channels,
\* neither by its own channel map nor by the member maps; and the turn of the
\* JOIN loop that finds the connection at the limit appends
\* ERR_TOO_MANY_CHANNELS (405) for the name in front, changes nothing else
\* and ends the handler with the remaining names unprocessed.
C37_ChanLimit ==
    [][\A c \in Conns :
        /\ Cardinality(DOMAIN cchannels'[c]) <= ConfiguredChanLimit
        /\ Cardinality(MemberOf(c))' <= ConfiguredChanLimit
        /\ JoinsAtLimit(c) =>
            /\ outbox' = [outbox EXCEPT ![c] =
                   Append(@, make_reply_msg(get_nick(c), "405",
                       <<Head(loc[c].todo), "You have joined too many channels">>))]
            /\ pc'[c] = "idle" /\ loc'[c] = LocIdle
            /\ UNCHANGED <<channels, chan, cchannels>>]_vars

\* A connection that is in one channel holds the 405 for #b, the second name
\* of its list, and has no 405 for #c.
C37_Witness ==
    \E c \in Conns :
        /\ pc[c] = "idle" /\ Cardinality(DOMAIN cchannels[c]) = ConfiguredChanLimit
        /\ \E i \in 1..Len(outbox[c]) : outbox[c][i].cmd = "405" /\ outbox[c][i].params[2] = "#b"
        /\ \A i \in 1..Len(outbox[c]) : outbox[c][i].cmd = "405" => outbox[c][i].params[2] # "#c"
        /\ "#C" \notin DOMAIN channels

\* ------------------------------------------------- replies that echo a parameter
\* The bytes of the literals of the handlers and of make_reply_msg.
NickVerb == <<"N", "I", "C", "K">>
JoinVerb == <<"J", "O", "I", "N">>
ServerNameBytes == <<"r", "i", "r", "c", "-", "s", "e", "r", "v", "e", "r">>
NoNicknameGiven == <<"N", "o", " ", "n", "i", "c", "k", "n", "a", "m", "e", " ", "g", "i", "v", "e", "n">>
ErroneousNickname == <<"E", "r", "r", "o", "n", "e", "o", "u", "s", " ", "n", "i", "c", "k", "n", "a", "m", "e">>
NoSuchChannel == <<"N", "o", " ", "s", "u", "c", "h", " ", "c", "h", "a", "n", "n", "e", "l">>
TooManyChannels == <<"Y", "o", "u", " ", "h", "a", "v", "e", " ", "j", "o", "i", "n", "e", "d", " ", "t", "o", "o", " ", "m", "a", "n", "y", " ", "c", "h", "a", "n", "n", "e", "l", "s">>
EndOfNames == <<"E", "n", "d", " ", "o", "f", " ", "/", "N", "A", "M", "E", "S", " ", "l", "i", "s", "t">>

\* make_reply_msg on bytes: the client's nick in front, the description last.
make_reply_msg_bytes(client_nick, cmd_num, params, description) ==
    [tags |-> <<>>, source |-> Some(ServerNameBytes), command |-> cmd_num,
     params |-> <<client_nick>> \o params \o <<description>>]

to_ascii_uppercase_bytes(cs) == [i \in 1..Len(cs) |-> IF cs[i] = "a" THEN "A" ELSE cs[i]]

\* handle_nick of a registered client for a nick by_nick does not hold: the
\* replies to a missing and to a refused nick, and the NICK message.
handle_nick_msgs(client_nick, prefix, msg) ==
    IF msg.params = <<>>
    THEN <<make_reply_msg_bytes(client_nick, <<"4", "3", "1">>, <<>>, NoNicknameGiven)>>
    ELSE IF ~is_valid_nick_chars(MaxNameLength, msg.params[1])
    THEN <<make_reply_msg_bytes(client_nick, <<"4", "3", "2">>, <<msg.params[1]>>,
                                ErroneousNickname)>>
    ELSE <<[tags |-> <<>>, source |-> Some(prefix), command |-> NickVerb,
            params |-> <<msg.params[1]>>]>>

\* The loop of handle_join over the names of the chanlist for a client that
\* has joined the channels `joined`, on a server without channels: the 403 of
\* a name without '#', the 405 at the limit, and for a channel the JOIN
\* creates the replies of get_join_msgs (no topic, no member yet) and the
\* JOIN message with the name of the channel.
RECURSIVE handle_join_loop(_, _, _, _)
handle_join_loop(client_nick, prefix, chanlist, joined) ==
    IF chanlist = <<>> THEN <<>>
    ELSE LET chan_name == Head(chanlist)
             rest == Tail(chanlist)
         IN IF chan_name = <<>> \/ chan_name[1] # "#"
            THEN <<make_reply_msg_bytes(client_nick, <<"4", "0", "3">>, <<chan_name>>,
                                        NoSuchChannel)>>
                 \o handle_join_loop(client_nick, prefix, rest, joined)
            ELSE IF Cardinality(joined) >= ChanLimit
            THEN <<make_reply_msg_bytes(client_nick, <<"4", "0", "5">>, <<chan_name>>,
                                        TooManyChannels)>>
            ELSE IF to_ascii_uppercase_bytes(chan_name) \in joined
            THEN handle_join_loop(client_nick, prefix, rest, joined)
            ELSE <<make_reply_msg_bytes(client_nick, <<"3", "6", "6">>, <<chan_name>>,
                                        EndOfNames),
                   [tags |-> <<>>, source |-> Some(prefix), command |-> JoinVerb,
                    params |-> <<chan_name>>]>>
                 \o handle_join_loop(client_nick, prefix, rest,
                                     joined \cup {to_ascii_uppercase_bytes(chan_name)})

handle_join_msgs(client_nick, prefix, msg) ==
    IF msg.params = <<>> THEN <<>>
    ELSE handle_join_loop(client_nick, prefix, split(msg.params[1], ","), {})

\* The lines of the model: NICK or JOIN and up to MaxEchoLen bytes of
\* parameters.
MaxEchoLen == 4
EchoChars == {":", " ", "#", "a", ","}
EchoBodies == UNION {[1..n -> EchoChars] : n \in 0..MaxEchoLen}

InitEcho ==
    /\ Quiet
    /\ \E verb \in {NickVerb, JoinVerb} : \E b \in EchoBodies :
          input = [fn |-> "poll_next", io |-> verb \o <<" ">> \o b \o <<"\r", "\n">>]
    /\ result = Unused

\* Server::process_message for the registered client al: the handler of the
\* verb builds the messages it sends.
ProcessMessage ==
    /\ result.fn = "poll_next"
    /\ LET msg == result.msg
           client_nick == <<"a", "l">>
           prefix == <<"a", "l", "!", "~", "u", "@", "1", "0", ".", "0", ".", "0", ".", "1">>
       IN result' = [fn |-> "process_message", msg |-> msg,
                     out |-> IF msg.command = NickVerb
                             THEN handle_nick_msgs(client_nick, prefix, msg)
                             ELSE IF msg.command = JoinVerb
                             THEN handle_join_msgs(client_nick, prefix, msg)
                             ELSE <<>>]
    /\ UNCHANGED input
    /\ UNCHANGED sessionvars

\* The debug_assert of to_line on a parameter that is not the last one.
to_line_debug_assert(m) ==
    \A i \in 1..(Len(m.params) - 1) : ~contains(m.params[i], " ")

\* Client::send_all of the messages: to_line writes each of them; a build
\* with debug assertions panics where the debug_assert fails.
SendAll ==
    /\ result.fn = "process_message"
    /\ \E debug_assertions \in BOOLEAN :
          result' = IF debug_assertions /\ \E i \in 1..Len(result.out) :
                                              ~to_line_debug_assert(result.out[i])
                    THEN [fn |-> "panic", line |-> <<>>]
                    ELSE [fn |-> "send_all", msg |-> result.msg, out |-> result.out,
                          lines |-> [i \in 1..Len(result.out) |-> to_line(result.out[i])]]
    /\ UNCHANGED input
    /\ UNCHANGED sessionvars

NextEcho == PollNext \/ ProcessMessage \/ SendAll

SpecEcho == InitEcho /\ [][NextEcho]_vars

\* C38: every message the server emits keeps the invariant of Message: no
\* parameter but the last one contains a space; also where a reply repeats a
\* parameter of the client in front of its description (the refused nick of
\* 432, the channel name of 366, 403 and 405).
C38_NoSpaceBeforeLast ==
    result.fn = "process_message" =>
        \A i \in 1..Len(result.out) :
            \A j \in 1..(Len(result.out[i].params) - 1) :
                ~contains(result.out[i].params[j], " ")

\* The step of send_lusers that counts by_addr and subtracts the number of
\* users counted before.
CountsUnknowns(c) == pc[c] = "lusers_clients" /\ pc'[c] # "lusers_clients"

\* C39: the 'unknown connections' figure of LUSERS never goes below zero.
\* Whenever send_lusers subtracts, by_addr holds at least as many entries as
\* by_nick held when it was counted, whatever registered or went away in
\* between, and the task does not panic.
C39_UnknownsNotNegative ==
    [][\A c \in Conns :
        CountsUnknowns(c) =>
            /\ Cardinality(clients) - loc[c].nu >= 0
            /\ c \notin panicked']_vars

\* ------------------------------------------------- Client::join and PART
\* Client::join is the entry into a channel the library offers to the
\* program that embeds the server; the caller holds a read guard of the
\* client.  Its result goes to the caller, the session goes on either way.
ClientJoinNames == {"#a", "#A", "a"}

\* Client::join up to the lock of by_channel: the '#' and the chan_limit.
ClientJoin(c) ==
    /\ Recv(c, "join")
    /\ status[c].st = "Normal"
    /\ \E n \in ClientJoinNames :
          IF ~starts_with_hash(n) \/ Cardinality(DOMAIN cchannels[c]) >= ChanLimit
          THEN UNCHANGED <<pc, loc>>
          ELSE loc' = [loc EXCEPT ![c].name = n] /\ Goto(c, "cj_lock_channels")
    /\ UNCHANGED <<status, clients, users, channels, chan, cchannels, outbox, sockOk,
                   nextId, panicked>>
    /\ UNCHANGED sinkvars

\* The block that looks the name up in by_channel or creates the channel;
\* the guard of by_channel ends with the block.
ClientJoinLockChannels(c) ==
    /\ pc[c] = "cj_lock_channels"
    /\ CanAcquire(c)
    /\ LET key == to_ascii_uppercase(loc[c].name)
           exists == key \in DOMAIN channels
           id == IF exists THEN channels[key] ELSE nextId
       IN /\ channels' = IF exists THEN channels ELSE channels @@ (key :> id)
          /\ chan' = IF exists THEN chan ELSE chan @@ (id :> Channel_new(loc[c].name))
          /\ nextId' = IF exists THEN nextId ELSE nextId + 1
          /\ loc' = [loc EXCEPT ![c].ch = id]
    /\ Goto(c, "cj_own_map")
    /\ UNCHANGED <<status, clients, users, cchannels, outbox, sockOk, cmds, panicked>>
    /\ UNCHANGED sinkvars

\* The entry of the client's own channel map: Ok(()) if there is one.
ClientJoinOwnMap(c) ==
    /\ pc[c] = "cj_own_map"
    /\ CanAcquire(c)
    /\ LET key == to_ascii_uppercase(loc[c].name)
       IN IF key \in DOMAIN cchannels[c]
          THEN Finish(c, TRUE) /\ UNCHANGED cchannels
          ELSE /\ cchannels' = [cchannels EXCEPT ![c] = @ @@ (key :> loc[c].ch)]
               /\ Goto(c, "cj_lock_clients")
               /\ UNCHANGED loc
    /\ UNCHANGED <<status, clients, users, channels, chan, outbox, sockOk, cmds,
                   nextId, panicked>>
    /\ UNCHANGED sinkvars

\* The client's own Weak from by_addr.
ClientJoinLockClients(c) ==
    /\ pc[c] = "cj_lock_clients"
    /\ CanAcquire(c)
    /\ IF c \in clients
       THEN Goto(c, "cj_write_members") /\ UNCHANGED loc
       ELSE Finish(c, TRUE)
    /\ UNCHANGED <<status, clients, users, channels, chan, cchannels, outbox, sockOk, cmds,
                   nextId, panicked>>
    /\ UNCHANGED sinkvars

\* The channel's read lock, the write lock of its member map, the insert.
\* get_join_msgs then asks for the read lock of the same member map
\* (channel.rs 44) while this task holds the write guard: the task stays at
\* that await, cj_names, with its guards.
ClientJoinWriteMembers(c) ==
    /\ pc[c] = "cj_write_members"
    /\ CanAcquire(c)
    /\ chan' = [chan EXCEPT ![loc[c].ch].users = @ \cup {c}]
    /\ Goto(c, "cj_names")
    /\ UNCHANGED <<status, clients, users, channels, cchannels, outbox, sockOk, cmds,
                   nextId, panicked, loc>>
    /\ UNCHANGED sinkvars

\* Connection 1 is the only member of #a.
InitLastMember ==
    /\ pc = [c \in Conns |-> "idle"]
    /\ status = [c \in Conns |-> Normal(NickOf[c], "~u", "real")]
    /\ clients = Conns
    /\ users = [k \in {to_ascii_uppercase(NickOf[c]) : c \in Conns} |->
                  CHOOSE c \in Conns : to_ascii_uppercase(NickOf[c]) = k]
    /\ channels = ("#A" :> 1)
    /\ chan = (1 :> [Channel_new("#a") EXCEPT !.users = {1}])
    /\ cchannels = [c \in Conns |-> IF c = 1 THEN ("#A" :> 1) ELSE Empty]
    /\ outbox = [c \in Conns |-> <<>>]
    /\ sockOk = [c \in Conns |-> TRUE]
    /\ loc = [c \in Conns |-> LocIdle]
    /\ cmds = 0
    /\ nextId = 2
    /\ panicked = {}
    /\ SinkInit

NextClientJoin ==
    \E c \in Conns :
        \/ Eof(c) \/ SockBreak(c)
        \/ ClientJoin(c) \/ ClientJoinLockChannels(c) \/ ClientJoinOwnMap(c)
        \/ ClientJoinLockClients(c) \/ ClientJoinWriteMembers(c)
        \/ RecvJoin(c) \/ JoinNext(c) \/ JoinLockChannels(c) \/ JoinReadMembers(c)
        \/ JoinWriteMembers(c) \/ JoinSend(c)
        \/ RecvPart(c) \/ PartStart(c) \/ PartReadMembers(c) \/ PartSend(c)
        \/ PartWriteMembers(c) \/ PartLockChannels(c)
        \/ BcChan(c) \/ BcSend(c)
        \/ DropStart(c) \/ DropUsers(c) \/ DropClients(c)

SpecClientJoin == InitLastMember /\ [][NextClientJoin]_vars

\* by_channel maps a name to the channel object.
Attached(id) == \E k \in DOMAIN channels : channels[k] = id

\* C40: a JOIN that runs while the last member of the channel leaves never
\* puts the joiner into the member map of a channel object that by_channel
\* does not hold: every channel object with a member is the one by_channel
\* maps its name to, so a later JOIN of that name meets the same object.
C40_JoinerAttached ==
    \A id \in DOMAIN chan :
        chan[id].users # {} =>
            /\ to_ascii_uppercase(chan[id].name) \in DOMAIN channels
            /\ channels[to_ascii_uppercase(chan[id].name)] = id

====
